---------------------------- MODULE Spec2Model ----------------------------
(***************************************************************************)
(* Pylon: the client pool, the archive fallback, the epoch calculator, the *)
(* ApplyWeights job, the client transport, the weight store, the           *)
(* authenticated endpoint, the periodic tasks, the metagraph cache and the  *)
(* two-connection client.                                                  *)
(*                                                                         *)
(* The specifications share the variables; each moves one component and    *)
(* leaves the others in their initial state:                               *)
(*   SpecPool      the pool under asyncio's cooperative scheduling         *)
(*                 (pylon/service/bittensor/pool.py)                       *)
(*   SpecFallback  one call of the fallback wrapper at a time              *)
(*                 (pylon/service/bittensor/client.py and the decorator of *)
(*                 pylon_service/bittensor_client.py)                      *)
(*   SpecEpoch     get_epoch_containing_block on bounded inputs            *)
(*                 (app/utils.py)                                          *)
(*   SpecJob       one ApplyWeights job (pylon_service/tasks.py) against a *)
(*                 chain whose head advances and whose calls may fail      *)
(*   SpecWeights   TurboBtClient.commit_weights / set_weights translating  *)
(*                 hotkeys to uids (pylon/service/bittensor/client.py)     *)
(*   SpecRequest   one request of the async client through its retry loop  *)
(*                 (pylon/_internal/client/abstract.py, async.py)          *)
(*   SpecStore     the weight table and its sessions (app/db.py)           *)
(*   SpecEndpoint  PUT /subnet/weights behind the token check              *)
(*                 (pylon/service/api.py)                                  *)
(*   SpecTasks     the three periodic tasks and the shutdown               *)
(*                 (pylon_service/tasks.py, main.py); SpecTasksFair adds   *)
(*                 the fairness of the event loop                          *)
(*   SpecCache     callers of get_metagraph and the TTL cache              *)
(*                 (pylon_service/bittensor_client.py)                     *)
(*   SpecClient    BittensorClient.open / close over the main and the      *)
(*                 archive sub-client                                      *)
(*                 (pylon/service/bittensor/client.py)                     *)
(***************************************************************************)
EXTENDS Integers, Sequences, FiniteSets, TLC

(***************************************************************************)
(* Bounds of the model.                                                    *)
(***************************************************************************)
NumTasks == 3
MaxCalls == 4
MaxBlock == 6
MaxCutoff == 3
MaxEpochBlock == 24
MaxNetuid == 3
MaxTempo == 5
MaxRetries == 2
MaxDelay == 1
MaxTimeout == 3
MaxHead == 2
MaxAttempts == 3
MaxStoreCalls == 2
MaxHeaderWords == 3
MaxPuts == 1
MaxChainTip == 3
MaxCacheCalls == 2
MaxClientCalls == 4

VARIABLES
    \* ---- BittensorClientPool (pool.py) ----
    is_open,          \* self.is_open
    closing_state,    \* self.closing_state
    pool,             \* self._pool: wallet key -> client (NoClient: key absent)
    acquire_counter,  \* self._acquire_counter
    acquire_lock,     \* self._acquire_lock: the task that holds it, NoTask when free
    lock_waiters,     \* FIFO of the tasks waiting for self._acquire_lock
    close_condition,  \* FIFO of the tasks waiting in self._close_condition.wait_for
    ready,            \* the event loop's FIFO of runnable tasks
    pc,               \* where each task is
    op,               \* the pool operation each task called last
    wallet_key,       \* acquire()'s local wallet_key of each task
    client,           \* acquire()'s local client of each task
    closing_clients,  \* close(): the clients handed to asyncio.gather
    result,           \* how the last operation of each task ended
    client_state,     \* per client object: none / created / open / closed
    client_key,       \* the wallet key a client was created for
    client_period,    \* the open period a client was created in
    handle_period,    \* the open period a task's handle was acquired in
    close_calls,      \* how often the pool called close() on a client
    period,           \* number of completed close() calls of the pool
    calls,            \* operations started so far (bounded by MaxCalls)
    \* ---- archive fallback ----
    archive_blocks_cutoff,  \* self._archive_blocks_cutoff / settings
    fb_call,          \* the last call: implementation, operation, block, latest
    main_calls,       \* the calls that call made on the main client
    archive_calls,    \* the calls that call made on the archive client
    fb_outcome,       \* what the caller got
    \* ---- epoch calculator ----
    ep_args,          \* block, netuid, tempo of the last call
    ep_result,        \* the Epoch it returned
    \* ---- ApplyWeights job (pylon_service/tasks.py) ----
    settings,         \* the settings the job reads
    chain_head,       \* number of the chain's head block
    hyperparams,      \* "commit_reveal_weights_enabled" in the subnet's hyperparameters
    aw_pc,            \* where run_job is
    latest_block,     \* run_job's local latest_block (its number)
    initial_tempo_start,   \* run_job's local initial_tempo_start
    retry_no,         \* the loop variable of run_job
    commit_reveal_enabled, \* _apply_weights' local commit_reveal_enabled
    aw_clock,         \* seconds since asyncio.timeout(timeout) was entered
    aw_sleep_left,    \* seconds left of the running asyncio.sleep
    aw_log,           \* what the job did: attempts, chain calls, sleeps
    aw_result,        \* how run_job ended
    aw_client,        \* the Bittensor client of the job: new, open or closed
    \* ---- TurboBtClient weights calls (client.py) ----
    tw_neurons,       \* the neurons of the subnet at the latest block
    tw_weights,       \* the weights argument: hotkey -> weight
    tw_call,          \* the method called and how it ended
    tw_submitted,     \* the uid -> weight mapping handed to the chain
    tw_missing,       \* the hotkeys named in the warning
    \* ---- async client transport (abstract.py, async.py) ----
    raw_client,       \* self.raw_client: none / open / closed
    max_attempt_number,  \* stop_after_attempt(n) of self.retry
    rq_pc,            \* where _request is
    rq_request,       \* the request being made
    rq_log,           \* what raw_client.request did in each attempt so far
    rq_result,        \* what _request returned or raised
    \* ---- weight store (app/db.py) ----
    ws_rows,          \* the weights table: rows in id order
    ws_session,       \* per session: the call it serves and where it is
    ws_calls,         \* store calls started so far
    ws_log,           \* the completed calls, in order of completion
    \* ---- PUT /subnet/weights (pylon/service/api.py) ----
    auth_token,       \* settings.auth_token
    au_puts,          \* requests served so far
    au_jobs,          \* ApplyWeights jobs scheduled so far
    au_last,          \* the last request and what the endpoint did with it
    \* ---- periodic tasks (pylon_service/tasks.py, main.py) ----
    stop_event,       \* app.state._stop_event is set
    shutdown,         \* where on_shutdown is
    pt_settings,      \* tempo, commit cycle length and commit window of the settings
    chain_tip,        \* the number of the chain's head block
    app_latest_block, \* app.state.latest_block
    current_epoch_start,  \* app.state.current_epoch_start
    metagraph_cache,  \* app.state.metagraph_cache: block -> the object stored
    mc_stores,        \* objects stored in the cache so far
    app_hyperparams,  \* app.state.hyperparams
    new_hyperparams,  \* what get_hyperparameters gave the poll of this iteration
    reveal_round,     \* app.state.reveal_round
    last_commit_block,  \* app.state.last_commit_block
    last_successful_commit_block,  \* the scheduler's local
    mg_pc,            \* where fetch_latest_metagraph_task is
    new_block,        \* its local new_block
    hp_pc,            \* where fetch_latest_hyperparams_task is
    cs_pc,            \* where set_weights_periodically_task is
    current_block,    \* its local current_block
    \* ---- get_metagraph callers (pylon_service/bittensor_client.py) ----
    gm_caller,        \* per caller: the get_metagraph call it is in
    gm_calls,         \* get_metagraph calls started so far
    gm_log,           \* completed calls and removals from the cache, in order
    \* ---- BittensorClient.open / close (pylon/service/bittensor/client.py) ----
    bc_main,          \* the main sub-client: its _raw_client and connection
    bc_archive,       \* the archive sub-client
    bc_pc,            \* where the open() or close() call under way is
    bc_calls,         \* open() and close() calls started so far
    bc_log            \* the calls that ended, in order, with how they ended

poolVars == <<is_open, closing_state, pool, acquire_counter, acquire_lock,
              lock_waiters, close_condition, ready, pc, op, wallet_key, client,
              closing_clients, result, client_state, client_key, client_period,
              handle_period, close_calls, period, calls>>
fbVars == <<archive_blocks_cutoff, fb_call, main_calls, archive_calls, fb_outcome>>
epVars == <<ep_args, ep_result>>
awVars == <<settings, chain_head, hyperparams, aw_pc, latest_block, initial_tempo_start,
            retry_no, commit_reveal_enabled, aw_clock, aw_sleep_left, aw_log,
            aw_result, aw_client>>
twVars == <<tw_neurons, tw_weights, tw_call, tw_submitted, tw_missing>>
rqVars == <<raw_client, max_attempt_number, rq_pc, rq_request, rq_log, rq_result>>
wsVars == <<ws_rows, ws_session, ws_calls, ws_log>>
auVars == <<auth_token, au_puts, au_jobs, au_last>>
ptVars == <<stop_event, shutdown, pt_settings, chain_tip, app_latest_block, current_epoch_start, metagraph_cache, mc_stores, app_hyperparams, new_hyperparams, reveal_round, last_commit_block, last_successful_commit_block, mg_pc, new_block, hp_pc, cs_pc, current_block>>
gmVars == <<gm_caller, gm_calls, gm_log>>
bcVars == <<bc_main, bc_archive, bc_pc, bc_calls, bc_log>>
vars == <<poolVars, fbVars, epVars, awVars, twVars, rqVars, wsVars, auVars, ptVars, gmVars, bcVars>>

(***************************************************************************)
(* Epoch calculator (app/utils.py).                                        *)
(***************************************************************************)
Epoch(start, end) == [epoch_start |-> start, epoch_end |-> end]

\* The calculator without the branch for a block that is itself an epoch start.
get_epoch_no_boundary(block, netuid, tempo) ==
    LET interval == tempo + 1
        next_epoch == block + tempo - ((block + netuid + 1) % interval)
    IN  Epoch(next_epoch - interval, next_epoch)

get_epoch_containing_block(block, netuid, tempo) ==
    LET interval == tempo + 1
        next_epoch == block + tempo - ((block + netuid + 1) % interval)
    IN  IF next_epoch = block
        THEN Epoch(next_epoch, next_epoch + interval)
        ELSE Epoch(next_epoch - interval, next_epoch)

NoArgs == [block |-> -1, netuid |-> -1, tempo |-> -1]

EpochIdle ==
    /\ ep_args = NoArgs
    /\ ep_result = Epoch(-1, -1)

\* A caller asks for the epoch of a block; tempo > 0 is the function's assertion.
GetEpoch ==
    /\ \E block \in 0..MaxEpochBlock, netuid \in 0..MaxNetuid, tempo \in 1..MaxTempo :
          /\ ep_args' = [block |-> block, netuid |-> netuid, tempo |-> tempo]
          /\ ep_result' = get_epoch_containing_block(block, netuid, tempo)
    /\ UNCHANGED <<poolVars, fbVars, awVars, twVars, rqVars, wsVars, auVars, ptVars, gmVars, bcVars>>

(***************************************************************************)
(* Archive fallback.  A sub-client call ends "ok", raises UnknownBlock or  *)
(* raises something else ("Error"); which of these happens is the chain's  *)
(* choice.  NoBlock stands for Python's None.                              *)
(***************************************************************************)
NoBlock == -1
Raises == -2
Blocks == 0..MaxBlock
SubOutcomes == {"ok", "UnknownBlock", "Error"}
ReadOperations == {"get_neurons", "get_hyperparams", "get_certificates", "get_certificate"}
MainOnlyOperations == {"get_block", "get_latest_block", "generate_certificate_keypair",
                       "commit_weights", "set_weights"}

Call(operation, block) == [operation |-> operation, block |-> block]
Outcome(status, source) == [status |-> status, source |-> source]
Routed(main, archive, outcome) == [main |-> main, archive |-> archive, outcome |-> outcome]

\* The staleness test of BittensorClient._archive_fallback.
\* A comparison with >= in the place of >.
is_stale_inclusive(latest, block, cutoff) == latest - block >= cutoff

is_stale(latest, block, cutoff) == latest - block > cutoff

\* The except clause of BittensorClient._archive_fallback.
\* A handler that catches nothing.
main_failure_caught_never(status) == FALSE

main_failure_caught(status) == status = "UnknownBlock"

\* BittensorClient._archive_fallback: latest is the number main.get_latest_block
\* returned, or Raises; mo and ao are what the operation does on main and archive.
archive_fallback_method(operation, block, latest, cutoff, mo, ao) ==
    LET latest_call == <<Call("get_latest_block", NoBlock)>>
        the_call == <<Call(operation, block)>>
    IN  IF latest = Raises
        THEN Routed(latest_call, <<>>, Outcome("Error", "main"))
        ELSE IF block = NoBlock
        THEN \* block.number on None
             Routed(latest_call, <<>>, Outcome("AttributeError", "wrapper"))
        ELSE IF is_stale(latest, block, cutoff)
        THEN Routed(latest_call, the_call, Outcome(ao, "archive"))
        ELSE IF main_failure_caught(mo)
        THEN Routed(latest_call \o the_call, the_call, Outcome(ao, "archive"))
        ELSE Routed(latest_call \o the_call, <<>>, Outcome(mo, "main"))

\* The main-only methods of BittensorClient.
main_only_method(operation, block, mo) ==
    Routed(<<Call(operation, block)>>, <<>>, Outcome(mo, "main"))

\* The decorator archive_fallback of pylon_service/bittensor_client.py around a
\* function that makes one chain call on the client of bittensor_context.
\* state_latest is app.state.latest_block (NoBlock: None).
archive_fallback(operation, block, state_latest, cutoff, mo, ao) ==
    LET use_archive == /\ block # NoBlock
                       /\ state_latest # NoBlock
                       /\ state_latest - block > cutoff
        the_call == <<Call(operation, block)>>
    IN  IF use_archive
        THEN Routed(<<>>, the_call, Outcome(ao, "archive"))
        ELSE IF mo = "UnknownBlock"
        THEN Routed(the_call, the_call, Outcome(ao, "archive"))
        ELSE Routed(the_call, <<>>, Outcome(mo, "main"))

\* The inputs of one call: the block asked for (NoBlock: None), the latest
\* block (for the wrapper what main.get_latest_block returns, NoBlock when it
\* raises; for the decorator app.state.latest_block, NoBlock when it is None),
\* and what the operation does on the main and on the archive client.
FallbackInputs ==
    [impl : {"none"}, operation : {"none"}, block : Blocks \cup {NoBlock},
     latest : Blocks \cup {NoBlock}, main : SubOutcomes, archive : SubOutcomes]

FallbackIdle ==
    /\ fb_call \in FallbackInputs
    /\ main_calls = <<>>
    /\ archive_calls = <<>>
    /\ fb_outcome = Outcome("none", "none")

Pending == fb_call.impl = "none"

Return(impl, operation, routed) ==
    /\ fb_call' = [fb_call EXCEPT !.impl = impl, !.operation = operation]
    /\ main_calls' = routed.main
    /\ archive_calls' = routed.archive
    /\ fb_outcome' = routed.outcome
    /\ UNCHANGED <<archive_blocks_cutoff, poolVars, epVars, awVars, twVars, rqVars, wsVars, auVars, ptVars, gmVars, bcVars>>

\* A read through _archive_fallback (client.py 353-365).
Read(operation) ==
    Return("wrapper", operation,
           archive_fallback_method(operation, fb_call.block,
                                   IF fb_call.latest = NoBlock THEN Raises
                                   ELSE fb_call.latest,
                                   archive_blocks_cutoff, fb_call.main, fb_call.archive))

GetNeurons ==
    /\ Pending
    /\ Read("get_neurons")

GetHyperparams ==
    /\ Pending
    /\ Read("get_hyperparams")

GetCertificates ==
    /\ Pending
    /\ Read("get_certificates")

GetCertificate ==
    /\ Pending
    /\ Read("get_certificate")

\* A main-only method (client.py 347-351, 367-376).
MainOnly(operation, block) ==
    Return("wrapper", operation, main_only_method(operation, block, fb_call.main))

GetBlock ==
    /\ Pending
    /\ fb_call.block # NoBlock
    /\ MainOnly("get_block", fb_call.block)

GetLatestBlock ==
    /\ Pending
    /\ MainOnly("get_latest_block", NoBlock)

GenerateCertificateKeypair ==
    /\ Pending
    /\ MainOnly("generate_certificate_keypair", NoBlock)

CommitWeights ==
    /\ Pending
    /\ MainOnly("commit_weights", NoBlock)

SetWeights ==
    /\ Pending
    /\ MainOnly("set_weights", NoBlock)

\* The decorated functions of pylon_service/bittensor_client.py that make one
\* chain call: cache_metagraph(block=...), get_certificates() and
\* get_certificate() for the latest block, generate_certificate_keypair().
Legacy(operation, block) ==
    Return("decorator", operation,
           archive_fallback(operation, block, fb_call.latest,
                            archive_blocks_cutoff, fb_call.main, fb_call.archive))

LegacyCacheMetagraph ==
    /\ Pending
    /\ fb_call.block # NoBlock
    /\ Legacy("cache_metagraph", fb_call.block)

LegacyGetCertificates ==
    /\ Pending
    /\ fb_call.block = NoBlock
    /\ Legacy("get_certificates", NoBlock)

LegacyGetCertificate ==
    /\ Pending
    /\ fb_call.block = NoBlock
    /\ Legacy("get_certificate", NoBlock)

LegacyGenerateCertificateKeypair ==
    /\ Pending
    /\ Legacy("generate_certificate_keypair", NoBlock)

FallbackNext ==
    \/ GetNeurons \/ GetHyperparams \/ GetCertificates \/ GetCertificate
    \/ GetBlock \/ GetLatestBlock \/ GenerateCertificateKeypair
    \/ CommitWeights \/ SetWeights
    \/ LegacyCacheMetagraph \/ LegacyGetCertificates \/ LegacyGetCertificate
    \/ LegacyGenerateCertificateKeypair

(***************************************************************************)
(* BittensorClientPool (pylon/service/bittensor/pool.py) on asyncio.       *)
(*                                                                         *)
(* One thread runs the tasks: the event loop takes the first task of       *)
(* `ready` and runs it up to its next suspension.  A task suspends only    *)
(* where it waits for the acquire lock held by another task, waits on the  *)
(* close condition with the counter above 0, or waits for the network      *)
(* (client.open(), the gathered client.close() calls).  A step that does   *)
(* not suspend leaves the task at the head of `ready`, so nothing runs in  *)
(* between.  asyncio.Lock hands the lock to its waiters in FIFO order, and *)
(* Condition.notify_all wakes the waiters in the order they waited.        *)
(* The condition's own lock is never held across a suspension and is not   *)
(* modelled.                                                               *)
(***************************************************************************)
Tasks == 1..NumTasks
\* Two wallets: enough for acquires of the same key and of different keys.
WalletKeys == {"wallet_a", "wallet_b"}
NoTask == 0
NoClient == 0
NoKey == "no_key"
Clients == 1..MaxCalls

Running(t) == ready # <<>> /\ Head(ready) = t

\* The body of can_close with an off-by-one.
can_close_off_by_one == acquire_counter <= 1

\* BittensorClientPool.can_close
can_close == acquire_counter = 0

\* assert_not_closing that never raises.
assert_not_closing_never == FALSE

\* BittensorClientPool.assert_not_closing: TRUE when it raises.
assert_not_closing == closing_state

\* assert_not_closed that never raises.
assert_not_closed_never == FALSE

\* BittensorClientPool.assert_not_closed: TRUE when it raises.
assert_not_closed == ~is_open

\* A lookup that never finds the key.
in_pool_never(key) == FALSE

\* `wallet_key in self._pool`
in_pool(key) == pool[key] # NoClient

\* gather that lets the first exception through.
return_exceptions_off == FALSE

\* `return_exceptions=True` of the asyncio.gather in close() (pool.py 88)
return_exceptions == TRUE

\* The object a new client_cls(...) call returns: one that does not exist yet.
new_client ==
    CHOOSE c \in Clients :
        /\ client_state[c] = "none"
        /\ \A d \in Clients : client_state[d] = "none" => c <= d

PoolInit ==
    /\ is_open = FALSE
    /\ closing_state = FALSE
    /\ pool = [k \in WalletKeys |-> NoClient]
    /\ acquire_counter = 0
    /\ acquire_lock = NoTask
    /\ lock_waiters = <<>>
    /\ close_condition = <<>>
    /\ ready = <<>>
    /\ pc = [t \in Tasks |-> "idle"]
    /\ op = [t \in Tasks |-> "none"]
    /\ wallet_key = [t \in Tasks |-> NoKey]
    /\ client = [t \in Tasks |-> NoClient]
    /\ closing_clients = [t \in Tasks |-> {}]
    /\ result = [t \in Tasks |-> "none"]
    /\ client_state = [c \in Clients |-> "none"]
    /\ client_key = [c \in Clients |-> NoKey]
    /\ client_period = [c \in Clients |-> 0]
    /\ handle_period = [t \in Tasks |-> 0]
    /\ close_calls = [c \in Clients |-> 0]
    /\ period = 0
    /\ calls = 0

PoolFrame == UNCHANGED <<fbVars, epVars, awVars, twVars, rqVars, wsVars, auVars, ptVars, gmVars, bcVars>>

\* `async with self._acquire_lock` on entry: take the free lock and go on, or
\* queue behind the holder and suspend.
LockOrWait(t, locked, waiting) ==
    IF acquire_lock = NoTask
    THEN /\ acquire_lock' = t
         /\ pc' = [pc EXCEPT ![t] = locked]
         /\ UNCHANGED <<lock_waiters, ready>>
    ELSE /\ lock_waiters' = Append(lock_waiters, t)
         /\ pc' = [pc EXCEPT ![t] = waiting]
         /\ ready' = Tail(ready)
         /\ UNCHANGED acquire_lock

\* The label a task waiting for the lock resumes at.
Locked(w) == IF op[w] = "close" THEN "close_locked" ELSE "acquire_locked"

\* `async with self._acquire_lock` on exit by the running task t, which goes
\* to `next` and stays running (stay) or leaves the ready queue.
Unlock(t, next, stay) ==
    LET rest == IF stay THEN ready ELSE Tail(ready)
    IN  IF lock_waiters = <<>>
        THEN /\ acquire_lock' = NoTask
             /\ pc' = [pc EXCEPT ![t] = next]
             /\ ready' = rest
             /\ UNCHANGED lock_waiters
        ELSE LET w == Head(lock_waiters)
             IN  /\ acquire_lock' = w
                 /\ lock_waiters' = Tail(lock_waiters)
                 /\ pc' = [pc EXCEPT ![t] = next, ![w] = Locked(w)]
                 /\ ready' = Append(rest, w)

\* ---- callers ----

\* A task calls pool.open().
CallOpen(t) ==
    /\ pc[t] = "idle" /\ calls < MaxCalls
    /\ pc' = [pc EXCEPT ![t] = "open"]
    /\ op' = [op EXCEPT ![t] = "open"]
    /\ result' = [result EXCEPT ![t] = "none"]
    /\ ready' = Append(ready, t)
    /\ calls' = calls + 1
    /\ UNCHANGED <<is_open, closing_state, pool, acquire_counter, acquire_lock,
                   lock_waiters, close_condition, wallet_key, client, closing_clients,
                   client_state, client_key, client_period, handle_period,
                   close_calls, period>>
    /\ PoolFrame

\* A task enters `async with pool.acquire(wallet)`.
CallAcquire(t) ==
    /\ pc[t] = "idle" /\ calls < MaxCalls
    /\ \E key \in WalletKeys : wallet_key' = [wallet_key EXCEPT ![t] = key]
    /\ pc' = [pc EXCEPT ![t] = "acquire"]
    /\ op' = [op EXCEPT ![t] = "acquire"]
    /\ result' = [result EXCEPT ![t] = "none"]
    /\ client' = [client EXCEPT ![t] = NoClient]
    /\ ready' = Append(ready, t)
    /\ calls' = calls + 1
    /\ UNCHANGED <<is_open, closing_state, pool, acquire_counter, acquire_lock,
                   lock_waiters, close_condition, closing_clients,
                   client_state, client_key, client_period, handle_period,
                   close_calls, period>>
    /\ PoolFrame

\* A task calls pool.close().
CallClose(t) ==
    /\ pc[t] = "idle" /\ calls < MaxCalls
    /\ pc' = [pc EXCEPT ![t] = "close"]
    /\ op' = [op EXCEPT ![t] = "close"]
    /\ result' = [result EXCEPT ![t] = "none"]
    /\ ready' = Append(ready, t)
    /\ calls' = calls + 1
    /\ UNCHANGED <<is_open, closing_state, pool, acquire_counter, acquire_lock,
                   lock_waiters, close_condition, wallet_key, client, closing_clients,
                   client_state, client_key, client_period, handle_period,
                   close_calls, period>>
    /\ PoolFrame

\* The body of a task's `async with pool.acquire(...)` ends: the task becomes
\* runnable at the finally clause.
ExitContext(t) ==
    /\ pc[t] = "holding"
    /\ pc' = [pc EXCEPT ![t] = "release"]
    /\ ready' = Append(ready, t)
    /\ UNCHANGED <<is_open, closing_state, pool, acquire_counter, acquire_lock,
                   lock_waiters, close_condition, op, wallet_key, client,
                   closing_clients, result, client_state, client_key, client_period,
                   handle_period, close_calls, period, calls>>
    /\ PoolFrame


\* ---- the steps of the running task ----

\* BittensorClientPool.open
Open(t) ==
    /\ Running(t) /\ pc[t] = "open"
    /\ IF assert_not_closing
       THEN /\ result' = [result EXCEPT ![t] = "PoolClosing"]
            /\ UNCHANGED is_open
       ELSE /\ is_open' = TRUE
            /\ result' = [result EXCEPT ![t] = "ok"]
    /\ pc' = [pc EXCEPT ![t] = "idle"]
    /\ ready' = Tail(ready)
    /\ UNCHANGED <<closing_state, pool, acquire_counter, acquire_lock, lock_waiters,
                   close_condition, op, wallet_key, client, closing_clients,
                   client_state, client_key, client_period, handle_period,
                   close_calls, period, calls>>
    /\ PoolFrame

\* acquire(): `async with self._acquire_lock` (pool.py 124)
AcquireStart(t) ==
    /\ Running(t) /\ pc[t] = "acquire"
    /\ LockOrWait(t, "acquire_locked", "acquire_wait_lock")
    /\ UNCHANGED <<is_open, closing_state, pool, acquire_counter, close_condition,
                   op, wallet_key, client, closing_clients, result, client_state,
                   client_key, client_period, handle_period, close_calls, period, calls>>
    /\ PoolFrame

\* acquire() under the lock (pool.py 125-137): the two assertions, the counter,
\* the lookup, and either the shared client or a new one whose open() is awaited
\* with the lock held.
AcquireLocked(t) ==
    /\ Running(t) /\ pc[t] = "acquire_locked"
    /\ IF assert_not_closing \/ assert_not_closed
       THEN /\ result' = [result EXCEPT ![t] =
                            IF assert_not_closing THEN "PoolClosing" ELSE "PoolClosed"]
            /\ Unlock(t, "idle", FALSE)
            /\ wallet_key' = [wallet_key EXCEPT ![t] = NoKey]
            /\ UNCHANGED <<acquire_counter, pool, client, client_state, client_key,
                           client_period, handle_period>>
       ELSE /\ acquire_counter' = acquire_counter + 1
            /\ handle_period' = [handle_period EXCEPT ![t] = period]
            /\ UNCHANGED wallet_key
            /\ IF in_pool(wallet_key[t])
               THEN /\ client' = [client EXCEPT ![t] = pool[wallet_key[t]]]
                    /\ result' = [result EXCEPT ![t] = "acquired"]
                    /\ Unlock(t, "holding", FALSE)
                    /\ UNCHANGED <<pool, client_state, client_key, client_period>>
               ELSE LET c == new_client
                    IN  /\ pool' = [pool EXCEPT ![wallet_key[t]] = c]
                        /\ client' = [client EXCEPT ![t] = c]
                        /\ client_state' = [client_state EXCEPT ![c] = "created"]
                        /\ client_key' = [client_key EXCEPT ![c] = wallet_key[t]]
                        /\ client_period' = [client_period EXCEPT ![c] = period]
                        /\ pc' = [pc EXCEPT ![t] = "acquire_opening"]
                        /\ ready' = Tail(ready)
                        /\ UNCHANGED <<acquire_lock, lock_waiters, result>>
    /\ UNCHANGED <<is_open, closing_state, close_condition, op,
                   closing_clients, close_calls, period, calls>>
    /\ PoolFrame

\* The network: client.open() of the new client returns.
ClientOpenReturns(t) ==
    /\ pc[t] = "acquire_opening"
    /\ client_state' = [client_state EXCEPT ![client[t]] = "open"]
    /\ pc' = [pc EXCEPT ![t] = "acquire_opened"]
    /\ ready' = Append(ready, t)
    /\ UNCHANGED <<is_open, closing_state, pool, acquire_counter, acquire_lock,
                   lock_waiters, close_condition, op, wallet_key, client,
                   closing_clients, result, client_key, client_period,
                   handle_period, close_calls, period, calls>>
    /\ PoolFrame

\* The network: client.open() of the new client raises.
ClientOpenRaises(t) ==
    /\ pc[t] = "acquire_opening"
    /\ pc' = [pc EXCEPT ![t] = "acquire_open_failed"]
    /\ ready' = Append(ready, t)
    /\ UNCHANGED <<is_open, closing_state, pool, acquire_counter, acquire_lock,
                   lock_waiters, close_condition, op, wallet_key, client,
                   closing_clients, result, client_state, client_key, client_period,
                   handle_period, close_calls, period, calls>>
    /\ PoolFrame

\* acquire() after client.open() returned: leave the lock, yield the client.
AcquireOpened(t) ==
    /\ Running(t) /\ pc[t] = "acquire_opened"
    /\ result' = [result EXCEPT ![t] = "acquired"]
    /\ Unlock(t, "holding", FALSE)
    /\ UNCHANGED <<is_open, closing_state, pool, acquire_counter, close_condition,
                   op, wallet_key, client, closing_clients, client_state, client_key,
                   client_period, handle_period, close_calls, period, calls>>
    /\ PoolFrame

\* acquire() after client.open() raised: the exception leaves the `async with`
\* of the lock before the try/finally is entered; the counter stays incremented
\* and the client stays in the pool.
AcquireOpenFailed(t) ==
    /\ Running(t) /\ pc[t] = "acquire_open_failed"
    /\ result' = [result EXCEPT ![t] = "OpenError"]
    /\ client' = [client EXCEPT ![t] = NoClient]
    /\ wallet_key' = [wallet_key EXCEPT ![t] = NoKey]
    /\ Unlock(t, "idle", FALSE)
    /\ UNCHANGED <<is_open, closing_state, pool, acquire_counter, close_condition,
                   op, closing_clients, client_state, client_key,
                   client_period, handle_period, close_calls, period, calls>>
    /\ PoolFrame

\* acquire()'s finally clause (pool.py 140-147): decrement and notify_all.
Release(t) ==
    /\ Running(t) /\ pc[t] = "release"
    /\ acquire_counter' = acquire_counter - 1
    /\ pc' = [u \in Tasks |->
                IF u = t THEN "idle"
                ELSE IF \E i \in 1..Len(close_condition) : close_condition[i] = u
                     THEN "close_recheck" ELSE pc[u]]
    /\ ready' = Tail(ready) \o close_condition
    /\ close_condition' = <<>>
    /\ result' = [result EXCEPT ![t] = "released"]
    /\ client' = [client EXCEPT ![t] = NoClient]
    /\ wallet_key' = [wallet_key EXCEPT ![t] = NoKey]
    /\ UNCHANGED <<is_open, closing_state, pool, acquire_lock, lock_waiters, op,
                   closing_clients, client_state, client_key,
                   client_period, handle_period, close_calls, period, calls>>
    /\ PoolFrame

\* close(): the two assertions, then `async with self._acquire_lock` (pool.py 75-79)
CloseStart(t) ==
    /\ Running(t) /\ pc[t] = "close"
    /\ IF assert_not_closing \/ assert_not_closed
       THEN /\ result' = [result EXCEPT ![t] =
                            IF assert_not_closing THEN "PoolClosing" ELSE "PoolClosed"]
            /\ pc' = [pc EXCEPT ![t] = "idle"]
            /\ ready' = Tail(ready)
            /\ UNCHANGED <<acquire_lock, lock_waiters>>
       ELSE /\ LockOrWait(t, "close_locked", "close_wait_lock")
            /\ UNCHANGED result
    /\ UNCHANGED <<is_open, closing_state, pool, acquire_counter, close_condition,
                   op, wallet_key, client, closing_clients, client_state, client_key,
                   client_period, handle_period, close_calls, period, calls>>
    /\ PoolFrame

\* close() under the lock (pool.py 80-86): enter the closing state, leave the
\* lock, and wait_for(can_close), which returns at once when the counter is 0.
CloseLocked(t) ==
    /\ Running(t) /\ pc[t] = "close_locked"
    /\ closing_state' = TRUE
    /\ IF can_close
       THEN /\ Unlock(t, "close_drained", TRUE)
            /\ UNCHANGED close_condition
       ELSE /\ Unlock(t, "close_wait_condition", FALSE)
            /\ close_condition' = Append(close_condition, t)
    /\ UNCHANGED <<is_open, pool, acquire_counter, op, wallet_key, client,
                   closing_clients, result, client_state, client_key, client_period,
                   handle_period, close_calls, period, calls>>
    /\ PoolFrame

\* wait_for after a notify_all: test the predicate again.
CloseRecheck(t) ==
    /\ Running(t) /\ pc[t] = "close_recheck"
    /\ IF can_close
       THEN /\ pc' = [pc EXCEPT ![t] = "close_drained"]
            /\ UNCHANGED <<ready, close_condition>>
       ELSE /\ pc' = [pc EXCEPT ![t] = "close_wait_condition"]
            /\ ready' = Tail(ready)
            /\ close_condition' = Append(close_condition, t)
    /\ UNCHANGED <<is_open, closing_state, pool, acquire_counter, acquire_lock,
                   lock_waiters, op, wallet_key, client, closing_clients, result,
                   client_state, client_key, client_period, handle_period,
                   close_calls, period, calls>>
    /\ PoolFrame

\* close() after the wait (pool.py 88): asyncio.gather over the clients that are
\* in the pool now.  With no client gather is done at once; otherwise the
\* close() coroutines are queued behind the tasks that are ready.
CloseGather(t) ==
    /\ Running(t) /\ pc[t] = "close_drained"
    /\ LET pooled == {pool[k] : k \in WalletKeys} \ {NoClient}
       IN  /\ closing_clients' = [closing_clients EXCEPT ![t] = pooled]
           /\ IF pooled = {}
              THEN /\ pc' = [pc EXCEPT ![t] = "close_finish"]
                   /\ UNCHANGED ready
              ELSE /\ pc' = [pc EXCEPT ![t] = "close_clients"]
                   /\ ready' = Append(Tail(ready), t)
    /\ UNCHANGED <<is_open, closing_state, pool, acquire_counter, acquire_lock,
                   lock_waiters, close_condition, op, wallet_key, client, result,
                   client_state, client_key, client_period, handle_period,
                   close_calls, period, calls>>
    /\ PoolFrame

\* The gathered coroutines start: client.close() is called on every client.
CloseClients(t) ==
    /\ Running(t) /\ pc[t] = "close_clients"
    /\ close_calls' = [c \in Clients |->
                         IF c \in closing_clients[t] THEN close_calls[c] + 1
                         ELSE close_calls[c]]
    /\ client_state' = [c \in Clients |->
                          IF c \in closing_clients[t] THEN "closed" ELSE client_state[c]]
    /\ pc' = [pc EXCEPT ![t] = "close_closing"]
    /\ ready' = Tail(ready)
    /\ UNCHANGED <<is_open, closing_state, pool, acquire_counter, acquire_lock,
                   lock_waiters, close_condition, op, wallet_key, client,
                   closing_clients, result, client_key, client_period,
                   handle_period, period, calls>>
    /\ PoolFrame

\* The network: every gathered client.close() has returned or raised; the
\* clients in `raised` are those whose close() raised.
ClientsCloseDone(t) ==
    /\ pc[t] = "close_closing"
    /\ \E raised \in SUBSET closing_clients[t] :
          client_state' = [c \in Clients |->
                             IF c \in raised THEN "close_failed" ELSE client_state[c]]
    /\ pc' = [pc EXCEPT ![t] = "close_finish"]
    /\ ready' = Append(ready, t)
    /\ UNCHANGED <<is_open, closing_state, pool, acquire_counter, acquire_lock,
                   lock_waiters, close_condition, op, wallet_key, client,
                   closing_clients, result, client_key, client_period,
                   handle_period, close_calls, period, calls>>
    /\ PoolFrame

\* close() after gather (pool.py 88-92): with return_exceptions the exceptions
\* of the clients are results of gather and the three assignments run; without
\* it the first exception leaves close() before them.
CloseFinish(t) ==
    /\ Running(t) /\ pc[t] = "close_finish"
    /\ IF ~return_exceptions
          /\ \E c \in closing_clients[t] : client_state[c] = "close_failed"
       THEN /\ result' = [result EXCEPT ![t] = "CloseError"]
            /\ UNCHANGED <<is_open, closing_state, pool, period>>
       ELSE /\ is_open' = FALSE
            /\ closing_state' = FALSE
            /\ pool' = [k \in WalletKeys |-> NoClient]
            /\ period' = period + 1
            /\ result' = [result EXCEPT ![t] = "ok"]
    /\ pc' = [pc EXCEPT ![t] = "idle"]
    /\ ready' = Tail(ready)
    /\ closing_clients' = [closing_clients EXCEPT ![t] = {}]
    /\ UNCHANGED <<acquire_counter, acquire_lock, lock_waiters, close_condition, op,
                   wallet_key, client, client_state, client_key,
                   client_period, handle_period, close_calls, calls>>
    /\ PoolFrame

PoolNext ==
    \E t \in Tasks :
        \/ CallOpen(t) \/ CallAcquire(t) \/ CallClose(t) \/ ExitContext(t)
        \/ Open(t)
        \/ AcquireStart(t) \/ AcquireLocked(t)
        \/ ClientOpenReturns(t) \/ ClientOpenRaises(t)
        \/ AcquireOpened(t) \/ AcquireOpenFailed(t) \/ Release(t)
        \/ CloseStart(t) \/ CloseLocked(t) \/ CloseRecheck(t) \/ CloseGather(t)
        \/ CloseClients(t) \/ ClientsCloseDone(t) \/ CloseFinish(t)

(***************************************************************************)
(* The ApplyWeights job (pylon_service/tasks.py 137-223).  run_job reads   *)
(* the chain head once, then loops over range(retry_count + 1) inside one  *)
(* asyncio.timeout block.  Every chain call may succeed or raise, and may  *)
(* take any time; the chain's head advances on its own.  The uid/weight    *)
(* payload of the submission is the subject of the translation below.      *)
(***************************************************************************)
\* The tempo and netuid settings the job is run with.
JobTempos == {1, 2}
JobNetuids == {1}

JobSettings ==
    [weights_retry_attempts : 0..MaxRetries,
     weights_retry_delay_seconds : 0..MaxDelay,
     weights_call_timeout_seconds : 1..MaxTimeout,
     tempo : JobTempos,
     bittensor_netuid : JobNetuids]

\* What the chain may hold under "commit_reveal_weights_enabled".
HyperparamValues == {"absent", "None", "False", "True"}

Event(kind, operation, outcome, no, arg) ==
    [kind |-> kind, op |-> operation, result |-> outcome, no |-> no, arg |-> arg]

JobIdle ==
    /\ settings \in JobSettings
    /\ chain_head = 0
    /\ hyperparams \in HyperparamValues
    /\ aw_pc = "idle"
    /\ latest_block = NoBlock
    /\ initial_tempo_start = NoBlock
    /\ retry_no = 0
    /\ commit_reveal_enabled = FALSE
    /\ aw_clock = 0
    /\ aw_sleep_left = 0
    /\ aw_log = <<>>
    /\ aw_result = "none"
    /\ aw_client = "new"

JobFrame == UNCHANGED <<poolVars, fbVars, epVars, twVars, rqVars, wsVars, auVars, ptVars, gmVars, bcVars>>

\* _is_current_tempo (180-187).
is_current_tempo(block, tempo_start) ==
    get_epoch_containing_block(block, settings.bittensor_netuid,
                               settings.tempo).epoch_start = tempo_start

\* bool(hyperparams.get("commit_reveal_weights_enabled", False)) with the key
\* always counted as set.
hyperparam_enabled_if_present(value) == value # "absent"

\* bool(hyperparams.get("commit_reveal_weights_enabled", False)) (198).
hyperparam_enabled(value) == value = "True"

\* The loop going on to the next iteration after _apply_weights returned.
after_apply_weights_continue(no) ==
    IF no < settings.weights_retry_attempts THEN "next" ELSE "done"

\* `break` after _apply_weights returned (168-169).
after_apply_weights(no) == "done"

\* range(retry_count + 1) with one more iteration.
iterations_remain_one_more(no) == no <= settings.weights_retry_attempts

\* Whether range(retry_count + 1) has an iteration after number `no` (162).
iterations_remain(no) == no < settings.weights_retry_attempts

\* The end of run_job: the timeout block and the client context are left.
Finish(outcome) ==
    /\ aw_pc' = "done"
    /\ aw_result' = outcome
    /\ aw_client' = "closed"
    /\ aw_sleep_left' = 0

\* Whether the chain's head is past the end of the epoch of `block` (the log
\* notes it for each attempt: 1 when the attempt began with the head there).
head_past_epoch_of(block) ==
    IF chain_head > get_epoch_containing_block(block, settings.bittensor_netuid,
                                               settings.tempo).epoch_end
    THEN 1 ELSE 0

\* One loop iteration up to its first suspension (163-168, 197): the tempo
\* check, then _apply_weights awaiting the hyperparameters.
Iteration(no, block, tempo_start, log) ==
    /\ retry_no' = no
    /\ IF is_current_tempo(block, tempo_start)
       THEN /\ aw_pc' = "fetch_hyperparams"
            /\ aw_log' = Append(log, Event("attempt", "", "", no,
                                          head_past_epoch_of(block)))
            /\ aw_result' = aw_result
            /\ aw_client' = aw_client
            /\ aw_sleep_left' = 0
       ELSE /\ Finish("tempo_changed")
            /\ aw_log' = log

InTimeout == aw_pc \in {"fetch_hyperparams", "list_neurons", "submit", "sleep"}
BeforeDeadline == aw_clock < settings.weights_call_timeout_seconds

\* An exception in the inner attempt (170-178): logged, then the retry sleep.
Raised(event) ==
    /\ aw_pc' = "sleep"
    /\ aw_sleep_left' = settings.weights_retry_delay_seconds
    /\ aw_log' = aw_log \o <<event, Event("sleep", "", "", retry_no,
                                          settings.weights_retry_delay_seconds)>>
    /\ UNCHANGED <<settings, chain_head, hyperparams, latest_block, initial_tempo_start,
                   retry_no, commit_reveal_enabled, aw_clock, aw_result, aw_client>>

\* ApplyWeights.schedule (143-148) and run_job up to `await head.get()`.
Schedule ==
    /\ aw_pc = "idle"
    /\ aw_pc' = "head_get"
    /\ UNCHANGED <<settings, chain_head, hyperparams, latest_block, initial_tempo_start,
                   retry_no, commit_reveal_enabled, aw_clock, aw_sleep_left,
                   aw_log, aw_result>>
    /\ aw_client' = "open"
    /\ JobFrame

\* head.get() returns (152-168): the epoch of the head is recorded, the
\* timeout block is entered and the first iteration starts.
HeadGet ==
    /\ aw_pc = "head_get"
    /\ latest_block' = chain_head
    /\ initial_tempo_start' =
           get_epoch_containing_block(chain_head, settings.bittensor_netuid,
                                      settings.tempo).epoch_start
    /\ aw_clock' = 0
    /\ Iteration(0, latest_block', initial_tempo_start', aw_log)
    /\ UNCHANGED <<settings, chain_head, hyperparams, commit_reveal_enabled>>
    /\ JobFrame

\* head.get() raises, or the block has no number (152-154).
HeadGetRaises ==
    /\ aw_pc = "head_get"
    /\ Finish("error")
    /\ UNCHANGED <<settings, chain_head, hyperparams, latest_block, initial_tempo_start,
                   retry_no, commit_reveal_enabled, aw_clock, aw_log>>
    /\ JobFrame

\* _fetch_hyperparams returns the hyperparameters of the block the job
\* started at (197-198, 203-204).
FetchHyperparams ==
    /\ aw_pc = "fetch_hyperparams"
    /\ BeforeDeadline
    /\ commit_reveal_enabled' = hyperparam_enabled(hyperparams)
    /\ aw_log' = Append(aw_log, Event("call", "get_hyperparameters", hyperparams,
                                      retry_no, 0))
    /\ aw_pc' = "list_neurons"
    /\ UNCHANGED <<settings, chain_head, hyperparams, latest_block, initial_tempo_start,
                   retry_no, aw_clock, aw_sleep_left, aw_result, aw_client>>
    /\ JobFrame

\* get_hyperparameters raises, or returns None and _fetch_hyperparams raises
\* RuntimeError (189-194).
FetchHyperparamsRaises ==
    /\ aw_pc = "fetch_hyperparams"
    /\ BeforeDeadline
    /\ Raised(Event("call", "get_hyperparameters", "raises", retry_no, 0))
    /\ JobFrame

\* list_neurons returns; the weights call is made (204-215).
ListNeurons ==
    /\ aw_pc = "list_neurons"
    /\ BeforeDeadline
    /\ aw_pc' = "submit"
    /\ aw_log' = Append(aw_log, Event("call", "list_neurons", "ok", retry_no, 0))
    /\ UNCHANGED <<settings, chain_head, hyperparams, latest_block, initial_tempo_start,
                   retry_no, commit_reveal_enabled, aw_clock, aw_sleep_left,
                   aw_result, aw_client>>
    /\ JobFrame

ListNeuronsRaises ==
    /\ aw_pc = "list_neurons"
    /\ BeforeDeadline
    /\ Raised(Event("call", "list_neurons", "raises", retry_no, 0))
    /\ JobFrame

\* The weights call of the attempt (209-215).
weights_call == IF commit_reveal_enabled THEN "commit" ELSE "set"

\* weights.commit / weights.set returns: _apply_weights returns (212-215, 169).
Submit ==
    /\ aw_pc = "submit"
    /\ BeforeDeadline
    /\ LET log == Append(aw_log, Event("call", weights_call, "ok", retry_no, 0))
       IN  IF after_apply_weights(retry_no) = "done"
           THEN /\ Finish("completed")
                /\ aw_log' = log
                /\ retry_no' = retry_no
           ELSE Iteration(retry_no + 1, latest_block, initial_tempo_start, log)
    /\ UNCHANGED <<settings, chain_head, hyperparams, latest_block, initial_tempo_start,
                   commit_reveal_enabled, aw_clock>>
    /\ JobFrame

SubmitRaises ==
    /\ aw_pc = "submit"
    /\ BeforeDeadline
    /\ Raised(Event("call", weights_call, "raises", retry_no, 0))
    /\ JobFrame

\* A second passes while the job is suspended inside the timeout block.
Tick ==
    /\ InTimeout
    /\ BeforeDeadline
    /\ aw_pc = "sleep" => aw_sleep_left > 0
    /\ aw_clock' = aw_clock + 1
    /\ aw_sleep_left' = IF aw_pc = "sleep" THEN aw_sleep_left - 1 ELSE aw_sleep_left
    /\ UNCHANGED <<settings, chain_head, hyperparams, aw_pc, latest_block, initial_tempo_start,
                   retry_no, commit_reveal_enabled, aw_log, aw_result, aw_client>>
    /\ JobFrame

\* asyncio.sleep returns (178): the next iteration, or the end of the loop.
SleepDone ==
    /\ aw_pc = "sleep"
    /\ aw_sleep_left = 0
    /\ BeforeDeadline
    /\ LET log == Append(aw_log, Event("slept", "", "", retry_no, 0))
       IN  IF iterations_remain(retry_no)
           THEN Iteration(retry_no + 1, latest_block, initial_tempo_start, log)
           ELSE /\ Finish("exhausted")
                /\ aw_log' = log
                /\ retry_no' = retry_no
    /\ UNCHANGED <<settings, chain_head, hyperparams, latest_block, initial_tempo_start,
                   commit_reveal_enabled, aw_clock>>
    /\ JobFrame

\* The deadline of asyncio.timeout (161) passes: the task is cancelled where
\* it waits, CancelledError is not an Exception, run_job raises TimeoutError.
Timeout ==
    /\ InTimeout
    /\ ~BeforeDeadline
    /\ Finish("TimeoutError")
    /\ UNCHANGED <<settings, chain_head, hyperparams, latest_block, initial_tempo_start,
                   retry_no, commit_reveal_enabled, aw_clock, aw_log>>
    /\ JobFrame

\* The chain produces a block.
AdvanceHead ==
    /\ aw_pc \notin {"idle", "done"}
    /\ chain_head < MaxHead
    /\ chain_head' = chain_head + 1
    /\ UNCHANGED <<settings, hyperparams, aw_pc, latest_block, initial_tempo_start, retry_no,
                   commit_reveal_enabled, aw_clock, aw_sleep_left, aw_log,
                   aw_result, aw_client>>
    /\ JobFrame

JobNext ==
    \/ Schedule \/ HeadGet \/ HeadGetRaises
    \/ FetchHyperparams \/ FetchHyperparamsRaises
    \/ ListNeurons \/ ListNeuronsRaises
    \/ Submit \/ SubmitRaises
    \/ Tick \/ SleepDone \/ Timeout \/ AdvanceHead

(***************************************************************************)
(* TurboBtClient.commit_weights / set_weights (client.py 274-306): the     *)
(* weights arrive keyed by hotkey and are handed to the chain keyed by     *)
(* uid, looked up in the neurons of the latest block.  The chain's neuron  *)
(* list has distinct hotkeys and the uids 0 .. n-1.                        *)
(***************************************************************************)
Hotkeys == {"hk_a", "hk_b", "hk_c"}
WeightValues == {1, 2}

Neuron(uid, hotkey) == [uid |-> uid, hotkey |-> hotkey]

HotkeyLists ==
    {hs \in UNION {[1..n -> Hotkeys] : n \in 0..Cardinality(Hotkeys)} :
        \A i \in DOMAIN hs : \A j \in DOMAIN hs : hs[i] = hs[j] => i = j}

NeuronLists == {[i \in DOMAIN hs |-> Neuron(i - 1, hs[i])] : hs \in HotkeyLists}

WeightsMappings == UNION {[D -> WeightValues] : D \in SUBSET Hotkeys}

NoWeights == [u \in {} |-> 0]

\* hotkey_to_uid = {n.hotkey: n.uid for n in neurons} (278): a later neuron
\* overwrites an earlier one with the same hotkey.
hotkey_to_uid(neurons) ==
    [h \in {neurons[i].hotkey : i \in DOMAIN neurons} |->
        LET last == CHOOSE i \in DOMAIN neurons :
                        /\ neurons[i].hotkey = h
                        /\ \A j \in DOMAIN neurons : neurons[j].hotkey = h => j <= i
        IN  neurons[last].uid]

\* The translation with a missing hotkey looked up as uid 0 instead of
\* being left out.
translate_weights_missing_as_zero(neurons, weights) ==
    LET table == hotkey_to_uid(neurons)
        uid(h) == IF h \in DOMAIN table THEN table[h] ELSE 0
    IN  [translated |-> [u \in {uid(h) : h \in DOMAIN weights} |->
                            weights[CHOOSE h \in DOMAIN weights : uid(h) = u]],
         missing |-> DOMAIN weights \ DOMAIN table]

\* _translate_weights (274-289): the loop over weights.items().
translate_weights(neurons, weights) ==
    LET table == hotkey_to_uid(neurons)
        known == {h \in DOMAIN weights : h \in DOMAIN table}
    IN  [translated |-> [u \in {table[h] : h \in known} |->
                            weights[CHOOSE h \in known : table[h] = u]],
         missing |-> DOMAIN weights \ known]

WeightsIdle ==
    /\ tw_call = [method |-> "none", raised |-> "none"]
    /\ tw_submitted = NoWeights
    /\ tw_missing = {}

WeightsUnused ==
    /\ WeightsIdle
    /\ tw_neurons = <<>>
    /\ tw_weights = NoWeights

\* One weights call.  It ends early when the client is not open (the assert)
\* or when get_latest_block or get_neurons raises; otherwise the translated
\* mapping goes to weights.commit / weights.set, which returns or raises.
WeightsCall(method) ==
    /\ \E raised \in {"none", "not_open", "get_latest_block", "get_neurons", "weights"} :
          LET t == translate_weights(tw_neurons, tw_weights)
          IN  /\ tw_call' = [method |-> method, raised |-> raised]
              /\ IF raised \in {"none", "weights"}
                 THEN tw_submitted' = t.translated /\ tw_missing' = t.missing
                 ELSE UNCHANGED <<tw_submitted, tw_missing>>
    /\ UNCHANGED <<tw_neurons, tw_weights>>
    /\ UNCHANGED <<poolVars, fbVars, epVars, awVars, rqVars, wsVars, auVars, ptVars, gmVars, bcVars>>

\* TurboBtClient.commit_weights (291-299).
TurboBtCommitWeights ==
    /\ tw_call.method = "none"
    /\ WeightsCall("commit_weights")

\* TurboBtClient.set_weights (301-306).
TurboBtSetWeights ==
    /\ tw_call.method = "none"
    /\ WeightsCall("set_weights")

WeightsNext == TurboBtCommitWeights \/ TurboBtSetWeights

(***************************************************************************)
(* The async client's transport (pylon/_internal/client/abstract.py 14-74, *)
(* async.py 24-35).  _request runs raw_client.request inside tenacity's    *)
(* AsyncRetrying: retry_if_exception_type(PylonRequestException),          *)
(* stop_after_attempt(n), reraise = True.  In each attempt the server      *)
(* answers with a status, or httpx raises a RequestError, or something     *)
(* else is raised.                                                         *)
(***************************************************************************)
Statuses == {200, 204, 302, 404, 500}
Requests == {"GetMetagraphRequest", "SetWeightsRequest"}
Attempt(outcome, status) == [outcome |-> outcome, status |-> status]
NoResult == [type |-> "none", status |-> 0, request |-> "none", response |-> 0]

\* Response.raise_for_status (71) raises unless the status is 2xx.
is_success(status) == 200 <= status /\ status <= 299

\* stop_after_attempt letting one attempt more through.
stop_after_attempt_late(attempt_number) == attempt_number > max_attempt_number

\* stop_after_attempt(n) (20): stop once n attempts were made.
stop_after_attempt(attempt_number) == attempt_number >= max_attempt_number

\* A retry condition that holds for every exception.
retry_if_any_exception(exception) == TRUE

\* retry_if_exception_type(PylonRequestException) (21).
retry_if_exception_type(exception) == exception = "PylonRequestException"

RequestIdle ==
    /\ raw_client = "none"
    /\ rq_pc = "idle"
    /\ rq_request = "none"
    /\ rq_log = <<>>
    /\ rq_result = NoResult

RequestFrame == UNCHANGED <<poolVars, fbVars, epVars, awVars, twVars, wsVars, auVars, ptVars, gmVars, bcVars>>

\* An attempt ended with an exception: tenacity retries it, or re-raises it.
AttemptRaised(exception, status, log) ==
    /\ rq_log' = log
    /\ IF retry_if_exception_type(exception) /\ ~stop_after_attempt(Len(log))
       THEN /\ rq_pc' = "wait"
            /\ rq_result' = rq_result
       ELSE /\ rq_pc' = "done"
            /\ rq_result' = [type |-> exception, status |-> status,
                             request |-> rq_request, response |-> status]

\* AsyncPylonClient.open (async.py 12-16).
OpenClient ==
    /\ raw_client = "none"
    /\ rq_pc = "idle"
    /\ raw_client' = "open"
    /\ UNCHANGED <<max_attempt_number, rq_pc, rq_request, rq_log, rq_result>>
    /\ RequestFrame

\* AsyncPylonClient.close (async.py 18-19).
CloseClient ==
    /\ raw_client = "open"
    /\ rq_pc \in {"idle", "done"}
    /\ raw_client' = "closed"
    /\ UNCHANGED <<max_attempt_number, rq_pc, rq_request, rq_log, rq_result>>
    /\ RequestFrame

\* request -> _request (async.py 21-22, abstract.py 58-63): the assertion,
\* then the first attempt awaits raw_client.request.
Request ==
    /\ rq_pc = "idle"
    /\ \E request \in Requests : rq_request' = request
    /\ IF raw_client = "open"
       THEN rq_pc' = "attempt" /\ rq_result' = rq_result
       ELSE /\ rq_pc' = "done"
            /\ rq_result' = [NoResult EXCEPT !.type = "AssertionError",
                                             !.request = rq_request']
    /\ UNCHANGED <<raw_client, max_attempt_number, rq_log>>
    /\ RequestFrame

\* raw_client.request raises a RequestError (66-69, async.py 24-27).
AttemptRequestError ==
    /\ rq_pc = "attempt"
    /\ AttemptRaised("PylonRequestException", 0, Append(rq_log, Attempt("RequestError", 0)))
    /\ UNCHANGED <<raw_client, max_attempt_number, rq_request>>
    /\ RequestFrame

\* raw_client.request raises something that is not a RequestError (65).
AttemptOtherError ==
    /\ rq_pc = "attempt"
    /\ AttemptRaised("Exception", 0, Append(rq_log, Attempt("Exception", 0)))
    /\ UNCHANGED <<raw_client, max_attempt_number, rq_request>>
    /\ RequestFrame

\* raw_client.request returns a response (65, 70-74, async.py 29-35).
AttemptResponse ==
    /\ rq_pc = "attempt"
    /\ \E status \in Statuses :
          IF is_success(status)
          THEN /\ rq_log' = Append(rq_log, Attempt("response", status))
               /\ rq_pc' = "done"
               /\ rq_result' = [type |-> "response", status |-> status,
                                request |-> rq_request, response |-> status]
          ELSE AttemptRaised("PylonHttpStatusException", status,
                             Append(rq_log, Attempt("response", status)))
    /\ UNCHANGED <<raw_client, max_attempt_number, rq_request>>
    /\ RequestFrame

\* The wait before a retry (wait_exponential_jitter) is over.
RetryWait ==
    /\ rq_pc = "wait"
    /\ rq_pc' = "attempt"
    /\ UNCHANGED <<raw_client, max_attempt_number, rq_request, rq_log, rq_result>>
    /\ RequestFrame

RequestNext ==
    \/ OpenClient \/ CloseClient \/ Request
    \/ AttemptRequestError \/ AttemptOtherError \/ AttemptResponse \/ RetryWait

(***************************************************************************)
(* The weight store (app/db.py).  Every call opens its own session; a      *)
(* call is a SELECT, then (for the writers) a change of the loaded row or  *)
(* an INSERT, flushed by commit().  Each await is a point where another    *)
(* session's call may run.                                                 *)
(***************************************************************************)
Sessions == {"s1", "s2"}
StoreHotkeys == {"hk_a", "hk_b"}
StoreEpochs == {1, 2}
StoreOps == {"set_weight", "update_weight", "get_raw_weights"}
NoRow == 0
NoHotkey == "none"

\* A row of the table "weights"; its id is its index in ws_rows.
Weight(hotkey, epoch, weight) ==
    [hotkey |-> hotkey, epoch |-> epoch, weight |-> weight]

InitialRows ==
    {<<>>} \cup {<<Weight(h, e, w)>> : h \in StoreHotkeys, e \in StoreEpochs,
                                       w \in WeightValues}

IdleSession ==
    [pc |-> "idle", op |-> "none", hotkey |-> NoHotkey, epoch |-> 0, arg |-> 0,
     existing_weight |-> NoRow, loaded |-> 0, overlapped |-> 0]

\* select(Weight).where(hotkey, epoch) ... .first(): the id of the first
\* matching row, NoRow when there is none.
_get_weight(rows, hotkey, epoch) ==
    LET ids == {i \in 1..Len(rows) : rows[i].hotkey = hotkey /\ rows[i].epoch = epoch}
    IN  IF ids = {} THEN NoRow ELSE CHOOSE i \in ids : \A j \in ids : i <= j

\* existing_weight.weight += delta
accumulate_overwrite(weight, delta) == delta
accumulate(weight, delta) == weight + delta

\* {m.hotkey: m.weight for m in weights}: of several rows of one hotkey the
\* last one read stays.
get_raw_weights(rows, epoch) ==
    LET ids(h) == {i \in 1..Len(rows) : rows[i].hotkey = h /\ rows[i].epoch = epoch}
        hs == {h \in StoreHotkeys : ids(h) # {}}
    IN  [h \in hs |-> rows[CHOOSE i \in ids(h) : \A j \in ids(h) : j <= i].weight]

StoreCallRecord(s, returned, raw) ==
    [op |-> ws_session[s].op, hotkey |-> ws_session[s].hotkey,
     epoch |-> ws_session[s].epoch, arg |-> ws_session[s].arg,
     existed |-> IF ws_session[s].existing_weight = NoRow THEN 0 ELSE 1,
     overlapped |-> ws_session[s].overlapped, result |-> returned, raw |-> raw]

StoreIdle ==
    /\ ws_session = [s \in Sessions |-> IdleSession]
    /\ ws_calls = 0
    /\ ws_log = <<>>

StoreUnused == StoreIdle /\ ws_rows = <<>>

StoreFrame == UNCHANGED <<poolVars, fbVars, epVars, awVars, twVars, rqVars, auVars, ptVars, gmVars, bcVars>>

\* A caller awaits set_weight, update_weight or get_raw_weights: the session
\* is opened and the SELECT sent.  Calls that are in progress together are
\* marked as overlapping.
StoreCall ==
    /\ ws_calls < MaxStoreCalls
    /\ \E s \in Sessions, o \in StoreOps, h \in StoreHotkeys, e \in StoreEpochs,
          a \in WeightValues :
          /\ ws_session[s].pc = "idle"
          /\ LET busy == \E r \in Sessions : ws_session[r].pc # "idle"
                 mine == [IdleSession EXCEPT
                            !.pc = "select", !.op = o, !.epoch = e,
                            !.hotkey = IF o = "get_raw_weights" THEN NoHotkey ELSE h,
                            !.arg = IF o = "get_raw_weights" THEN 0 ELSE a,
                            !.overlapped = IF busy THEN 1 ELSE 0]
             IN  ws_session' =
                   [r \in Sessions |->
                      IF r = s THEN mine
                      ELSE IF ws_session[r].pc # "idle"
                           THEN [ws_session[r] EXCEPT !.overlapped = 1]
                           ELSE ws_session[r]]
    /\ ws_calls' = ws_calls + 1
    /\ UNCHANGED <<ws_rows, ws_log>>
    /\ StoreFrame

\* _get_weight returns: the session holds the row as it reads now.
StoreSelect ==
    /\ \E s \in Sessions :
          /\ ws_session[s].pc = "select"
          /\ ws_session[s].op \in {"set_weight", "update_weight"}
          /\ LET id == _get_weight(ws_rows, ws_session[s].hotkey, ws_session[s].epoch)
             IN  ws_session' =
                   [ws_session EXCEPT
                      ![s].pc = "commit", ![s].existing_weight = id,
                      ![s].loaded = IF id = NoRow THEN 0 ELSE ws_rows[id].weight]
    /\ UNCHANGED <<ws_rows, ws_calls, ws_log>>
    /\ StoreFrame

\* set_weight: the loaded row gets the weight, or a new row is added; commit.
SetWeightCommit ==
    /\ \E s \in Sessions :
          /\ ws_session[s].pc = "commit"
          /\ ws_session[s].op = "set_weight"
          /\ LET c == ws_session[s]
             IN  ws_rows' =
                   IF c.existing_weight = NoRow
                   THEN Append(ws_rows, Weight(c.hotkey, c.epoch, c.arg))
                   ELSE [ws_rows EXCEPT ![c.existing_weight].weight = c.arg]
          /\ ws_log' = Append(ws_log, StoreCallRecord(s, 0, NoWeights))
          /\ ws_session' = [ws_session EXCEPT ![s] = IdleSession]
    /\ UNCHANGED ws_calls
    /\ StoreFrame

\* update_weight: delta is added to the loaded weight, or a new row holding
\* delta is added; commit; the new weight is returned.
UpdateWeightCommit ==
    /\ \E s \in Sessions :
          /\ ws_session[s].pc = "commit"
          /\ ws_session[s].op = "update_weight"
          /\ LET c == ws_session[s]
                 w == IF c.existing_weight = NoRow THEN c.arg
                      ELSE accumulate(c.loaded, c.arg)
             IN  /\ ws_rows' =
                       IF c.existing_weight = NoRow
                       THEN Append(ws_rows, Weight(c.hotkey, c.epoch, c.arg))
                       ELSE [ws_rows EXCEPT ![c.existing_weight].weight = w]
                 /\ ws_log' = Append(ws_log, StoreCallRecord(s, w, NoWeights))
          /\ ws_session' = [ws_session EXCEPT ![s] = IdleSession]
    /\ UNCHANGED ws_calls
    /\ StoreFrame

\* get_raw_weights returns the mapping of the epoch's rows.
GetRawWeights ==
    /\ \E s \in Sessions :
          /\ ws_session[s].pc = "select"
          /\ ws_session[s].op = "get_raw_weights"
          /\ ws_log' = Append(ws_log,
                 StoreCallRecord(s, 0, get_raw_weights(ws_rows, ws_session[s].epoch)))
          /\ ws_session' = [ws_session EXCEPT ![s] = IdleSession]
    /\ UNCHANGED <<ws_rows, ws_calls>>
    /\ StoreFrame

StoreNext ==
    \/ StoreCall
    \/ StoreSelect
    \/ SetWeightCommit
    \/ UpdateWeightCommit
    \/ GetRawWeights

(***************************************************************************)
(* PUT /subnet/weights (pylon/service/api.py): token_required around       *)
(* safe_endpoint around the handler.  A header value is the list of words  *)
(* that strip().split() finds in it.                                       *)
(***************************************************************************)
AuthTokens == {"", "tok_a", "tok_b"}
HeaderWords == {"Bearer", "BEARER", "Basic", "tok_a", "tok_b"}
WordLists == UNION {[1..n -> HeaderWords] : n \in 0..MaxHeaderWords}
AuthHeaders ==
    {[present |-> 0, parts |-> <<>>]} \cup {[present |-> 1, parts |-> ws] : ws \in WordLists}
EndpointOutcomes == {"ok", "client_raises", "schedule_raises"}

\* str.lower()
lower(word) ==
    CASE word \in {"Bearer", "BEARER"} -> "bearer"
      [] word = "Basic" -> "basic"
      [] OTHER -> word

Response(status_code, detail) == [status_code |-> status_code, detail |-> detail]

\* not provided_token or not secrets.compare_digest(provided_token, expected_token)
token_rejected_never(provided_token, expected_token) == FALSE
token_rejected(provided_token, expected_token) ==
    provided_token = "" \/ provided_token # expected_token

\* What the wrapper of token_required answers by itself; "call" when it
\* goes on to the endpoint.
token_required(header) ==
    IF auth_token = "" THEN Response(500, "Token auth not configured")
    ELSE IF header.present = 0 THEN Response(401, "Auth token required")
    ELSE IF Len(header.parts) # 2 \/ lower(header.parts[1]) # "bearer"
         THEN Response(401, "Invalid auth token")
    ELSE IF token_rejected(header.parts[2], auth_token)
         THEN Response(401, "Invalid auth token")
    ELSE Response(0, "call")

\* safe_endpoint: an exception of the handler becomes a 500 answer.
safe_endpoint(outcome) ==
    IF outcome = "ok" THEN Response(200, "weights update scheduled")
    ELSE Response(500, "Error in endpoint put_weights_endpoint")

PutRecord(header, response, created, scheduled) ==
    [header |-> header, response |-> response, created |-> created,
     scheduled |-> scheduled]

NoPut == PutRecord([present |-> 0, parts |-> <<>>], Response(0, "none"), 0, 0)

EndpointIdle == au_puts = 0 /\ au_jobs = 0 /\ au_last = NoPut

EndpointUnused == EndpointIdle /\ auth_token = ""

\* One PUT /subnet/weights.  Past the token check the handler creates the
\* chain client and schedules the job; either may raise.
put_weights_endpoint ==
    /\ au_puts < MaxPuts
    /\ \E header \in AuthHeaders :
          LET checked == token_required(header)
              called == checked.detail = "call"
          IN  \E outcome \in IF called THEN EndpointOutcomes ELSE {"ok"} :
                 LET created == IF called /\ outcome # "client_raises" THEN 1 ELSE 0
                     scheduled == IF called /\ outcome = "ok" THEN 1 ELSE 0
                 IN  /\ au_last' = PutRecord(header,
                                       IF called THEN safe_endpoint(outcome) ELSE checked,
                                       created, scheduled)
                     /\ au_jobs' = au_jobs + scheduled
    /\ au_puts' = au_puts + 1
    /\ UNCHANGED auth_token
    /\ UNCHANGED <<poolVars, fbVars, epVars, awVars, twVars, rqVars, wsVars, ptVars, gmVars, bcVars>>

EndpointNext == put_weights_endpoint

(***************************************************************************)
(* The periodic tasks (pylon_service/tasks.py) started by on_startup and   *)
(* stopped by on_shutdown (pylon_service/main.py).  A task is at one of    *)
(* its awaits; a step runs it to the next await.  The interval wait        *)
(* asyncio.wait([stop_task], timeout) ends when the interval has passed or *)
(* when stop_event is set.                                                 *)
(***************************************************************************)
SchedulerTempos == {2}
CycleLengths == {1, 2}
WindowStartOffsets == {0, 1}
WindowEndBuffers == {0}
TaskSettings ==
    [tempo : SchedulerTempos, commit_cycle_length : CycleLengths,
     commit_window_start_offset : WindowStartOffsets,
     commit_window_end_buffer : WindowEndBuffers, bittensor_netuid : JobNetuids]
ChainBlocks == 1..MaxChainTip
RevealRounds == {1, 2}
NoRound == 0
HyperparamKeys == {"tempo"}
HyperparamNumbers == {1, 2}
HyperparamDicts == UNION {[ks -> HyperparamNumbers] : ks \in SUBSET HyperparamKeys}
NoHyperparams == [k \in {} |-> 0]

\* The outcome of `await subnet.get_hyperparameters()`: whether it returned,
\* and the dict it returned.
Poll(returned, items) == [returned |-> returned, items |-> items]
NoPoll == Poll(0, NoHyperparams)
NoMetagraphs == [b \in {} |-> 0]

\* get_epoch_containing_block(block).start
epoch_start_of(block) ==
    get_epoch_containing_block(block, pt_settings.bittensor_netuid,
                               pt_settings.tempo).epoch_start

\* CommitWindow(current_block).commit_window: the blocks from
\* start + offset up to, not including, start + tempo - buffer.
commit_window(block) ==
    LET start == epoch_start_of(block)
    IN  {b \in 0..(MaxChainTip + pt_settings.tempo + 1) :
            /\ start + pt_settings.commit_window_start_offset <= b
            /\ b < start + pt_settings.tempo - pt_settings.commit_window_end_buffer}

\* tempos_since_last_commit < settings.commit_cycle_length
too_few_tempos_never(block, last) == FALSE
too_few_tempos(block, last) ==
    ((block - last) \div pt_settings.tempo) < pt_settings.commit_cycle_length

\* The TTL of the entry of block passes, or it is evicted.
cache_remove(cache, block) == [b \in DOMAIN cache \ {block} |-> cache[b]]

\* A store that keeps the entry a block already has.
cache_store_keep_first(cache, block, object) ==
    IF block \in DOMAIN cache THEN cache
    ELSE [b \in DOMAIN cache \cup {block} |-> IF b = block THEN object ELSE cache[b]]

\* app.state.metagraph_cache[block] = metagraph
cache_store_nothing(cache, block, object) == cache
cache_store(cache, block, object) ==
    [b \in DOMAIN cache \cup {block} |-> IF b = block THEN object ELSE cache[b]]

\* A poll that replaces the cached dict.
fetch_hyperparams_overwrite(current, new) == new

\* for k, v in new_hyperparams.items(): app.state.hyperparams[k] = v
fetch_hyperparams(current, new) ==
    [k \in DOMAIN current \cup DOMAIN new |->
        IF k \in DOMAIN new THEN new[k] ELSE current[k]]

TasksIdle ==
    /\ stop_event = FALSE
    /\ shutdown = "running"
    /\ chain_tip = 1
    /\ app_latest_block = NoBlock
    /\ current_epoch_start = NoBlock
    /\ metagraph_cache = NoMetagraphs
    /\ mc_stores = 0
    /\ app_hyperparams = NoHyperparams
    /\ new_hyperparams = NoPoll
    /\ reveal_round = NoRound
    /\ last_commit_block = NoBlock
    /\ last_successful_commit_block = 0
    /\ mg_pc = "start"
    /\ new_block = NoBlock
    /\ hp_pc = "start"
    /\ cs_pc = "startup"
    /\ current_block = NoBlock

TasksUnused ==
    /\ TasksIdle
    /\ pt_settings = [tempo |-> 2, commit_cycle_length |-> 1,
                      commit_window_start_offset |-> 0,
                      commit_window_end_buffer |-> 0, bittensor_netuid |-> 1]

TasksFrame == UNCHANGED <<poolVars, fbVars, epVars, awVars, twVars, rqVars, wsVars, auVars, gmVars, bcVars>>

appState == <<app_latest_block, current_epoch_start, metagraph_cache, mc_stores>>
commitState == <<reveal_round, last_commit_block, last_successful_commit_block>>
mgVars == <<mg_pc, new_block, appState>>
hpVars == <<hp_pc, app_hyperparams, new_hyperparams>>
csVars == <<cs_pc, current_block, commitState>>
envVars == <<stop_event, shutdown, pt_settings, chain_tip>>

\* ---- the chain and the service around the tasks ----
AdvanceChain ==
    /\ chain_tip < MaxChainTip
    /\ chain_tip' = chain_tip + 1
    /\ UNCHANGED <<stop_event, shutdown, pt_settings, mgVars, hpVars, csVars>>
    /\ TasksFrame

\* The TTL of an entry passes, or the entry is the one evicted for room.
CacheExpire ==
    /\ \E b \in DOMAIN metagraph_cache :
          metagraph_cache' = cache_remove(metagraph_cache, b)
    /\ UNCHANGED <<envVars, mg_pc, new_block, app_latest_block, current_epoch_start,
                   mc_stores, hpVars, csVars>>
    /\ TasksFrame

\* on_shutdown: the event is set and the tasks are gathered.
Shutdown ==
    /\ shutdown = "running"
    /\ stop_event' = TRUE
    /\ shutdown' = "gathering"
    /\ UNCHANGED <<pt_settings, chain_tip, mgVars, hpVars, csVars>>
    /\ TasksFrame

\* gather returns when every task has returned, and raises the exception of
\* a task that ended with one.
Gathered ==
    /\ shutdown = "gathering"
    /\ \/ /\ cs_pc = "raised"
          /\ shutdown' = "gather_raised"
       \/ /\ mg_pc = "done" /\ hp_pc = "done" /\ cs_pc = "done"
          /\ shutdown' = "closed"
    /\ UNCHANGED <<stop_event, pt_settings, chain_tip, mgVars, hpVars, csVars>>
    /\ TasksFrame

\* ---- fetch_latest_metagraph_task ----
MgFrame == UNCHANGED <<envVars, hpVars, csVars>> /\ TasksFrame

\* while not stop_event.is_set(): new_block = None, and head.get() is awaited.
mg_while ==
    IF stop_event
    THEN mg_pc' = "done" /\ UNCHANGED new_block
    ELSE mg_pc' = "head_get" /\ new_block' = NoBlock

\* The task created by on_startup runs for the first time.
MgStart ==
    /\ mg_pc = "start"
    /\ mg_while
    /\ UNCHANGED appState
    /\ MgFrame

\* head.get() returns the head block; a block other than the latest one is
\* handed to cache_metagraph.
MgHeadReturns ==
    /\ mg_pc = "head_get"
    /\ new_block' = chain_tip
    /\ mg_pc' = IF app_latest_block = NoBlock \/ chain_tip # app_latest_block
                THEN "cache" ELSE "wait"
    /\ UNCHANGED appState
    /\ MgFrame

\* head.get() returns None or a block without a number.
MgHeadInvalid ==
    /\ mg_pc = "head_get"
    /\ mg_pc' = "wait"
    /\ UNCHANGED <<new_block, appState>>
    /\ MgFrame

MgHeadRaises ==
    /\ mg_pc = "head_get"
    /\ mg_pc' = "wait"
    /\ UNCHANGED <<new_block, appState>>
    /\ MgFrame

\* cache_metagraph returns: the metagraph is in the cache, then latest_block
\* and current_epoch_start are set.
MgCacheReturns ==
    /\ mg_pc = "cache"
    /\ metagraph_cache' = cache_store(metagraph_cache, new_block, mc_stores + 1)
    /\ mc_stores' = mc_stores + 1
    /\ app_latest_block' = new_block
    /\ current_epoch_start' = epoch_start_of(new_block)
    /\ mg_pc' = "wait"
    /\ UNCHANGED new_block
    /\ MgFrame

\* cache_metagraph raises; the except logs it.
\* (MgCacheRaises_propagates: the call without the try around it.)
MgCacheRaises_propagates ==
    /\ mg_pc = "cache"
    /\ mg_pc' = "raised"
    /\ UNCHANGED <<new_block, appState>>
    /\ MgFrame
MgCacheRaises ==
    /\ mg_pc = "cache"
    /\ mg_pc' = "wait"
    /\ UNCHANGED <<new_block, appState>>
    /\ MgFrame

\* The interval has passed.
MgWaitTimeout ==
    /\ mg_pc = "wait"
    /\ mg_while
    /\ UNCHANGED appState
    /\ MgFrame

\* stop_task is done: the wait returns before the interval has passed.
\* (MgWaitStopped_never: a wait that only the interval ends.)
MgWaitStopped_never ==
    /\ FALSE
    /\ UNCHANGED vars
MgWaitStopped ==
    /\ mg_pc = "wait"
    /\ stop_event
    /\ mg_while
    /\ UNCHANGED appState
    /\ MgFrame

\* ---- fetch_latest_hyperparams_task ----
HpFrame == UNCHANGED <<envVars, mgVars, csVars>> /\ TasksFrame

hp_while == IF stop_event THEN "done" ELSE "fetch"

HpStart ==
    /\ hp_pc = "start"
    /\ hp_pc' = hp_while
    /\ UNCHANGED <<app_hyperparams, new_hyperparams>>
    /\ HpFrame

HpFetchReturns ==
    /\ hp_pc = "fetch"
    /\ \E items \in HyperparamDicts :
          /\ new_hyperparams' = Poll(1, items)
          /\ app_hyperparams' = fetch_hyperparams(app_hyperparams, items)
    /\ hp_pc' = "wait"
    /\ HpFrame

HpFetchRaises ==
    /\ hp_pc = "fetch"
    /\ hp_pc' = "wait"
    /\ new_hyperparams' = NoPoll
    /\ UNCHANGED app_hyperparams
    /\ HpFrame

HpWaitTimeout ==
    /\ hp_pc = "wait"
    /\ hp_pc' = hp_while
    /\ new_hyperparams' = NoPoll
    /\ UNCHANGED app_hyperparams
    /\ HpFrame

HpWaitStopped ==
    /\ hp_pc = "wait"
    /\ stop_event
    /\ hp_pc' = hp_while
    /\ new_hyperparams' = NoPoll
    /\ UNCHANGED app_hyperparams
    /\ HpFrame

\* ---- set_weights_periodically_task ----
CsFrame == UNCHANGED <<envVars, mgVars, hpVars>> /\ TasksFrame

\* A loop test that does not look at the event.
cs_while_always == "wait"

\* while not stop_event.is_set(): the iteration starts with the interval wait.
cs_while == IF stop_event THEN "done" ELSE "wait"

\* fetch_last_weight_commit_block(app) or 0
CsStartupReturns ==
    /\ cs_pc = "startup"
    /\ \E last_update \in {0} \cup ChainBlocks :
          /\ last_update <= chain_tip
          /\ last_successful_commit_block' = last_update
    /\ cs_pc' = cs_while
    /\ UNCHANGED <<current_block, reveal_round, last_commit_block>>
    /\ CsFrame

\* The startup read raises: nothing around it catches.
CsStartupRaises ==
    /\ cs_pc = "startup"
    /\ cs_pc' = "raised"
    /\ UNCHANGED <<current_block, commitState>>
    /\ CsFrame

\* The wait is over: the check runs up to the await of get_weights, or
\* continues with the next iteration.
CsCheck ==
    IF app_latest_block = NoBlock
    THEN cs_pc' = cs_while /\ current_block' = NoBlock
    ELSE IF too_few_tempos(app_latest_block, last_successful_commit_block)
    THEN cs_pc' = cs_while /\ current_block' = NoBlock
    ELSE IF app_latest_block \notin commit_window(app_latest_block)
    THEN cs_pc' = cs_while /\ current_block' = NoBlock
    ELSE cs_pc' = "get_weights" /\ current_block' = app_latest_block

CsWaitTimeout ==
    /\ cs_pc = "wait"
    /\ CsCheck
    /\ UNCHANGED commitState
    /\ CsFrame

CsWaitStopped ==
    /\ cs_pc = "wait"
    /\ stop_event
    /\ CsCheck
    /\ UNCHANGED commitState
    /\ CsFrame

CsGetWeightsReturns ==
    /\ cs_pc = "get_weights"
    /\ cs_pc' = "commit"
    /\ UNCHANGED <<current_block, commitState>>
    /\ CsFrame

\* get_weights returns nothing to set.
CsGetWeightsEmpty ==
    /\ cs_pc = "get_weights"
    /\ cs_pc' = cs_while
    /\ current_block' = NoBlock
    /\ UNCHANGED commitState
    /\ CsFrame

CsGetWeightsRaises ==
    /\ cs_pc = "get_weights"
    /\ cs_pc' = cs_while
    /\ current_block' = NoBlock
    /\ UNCHANGED commitState
    /\ CsFrame

CsCommitReturns ==
    /\ cs_pc = "commit"
    /\ \E round \in RevealRounds : reveal_round' = round
    /\ last_commit_block' = current_block
    /\ last_successful_commit_block' = current_block
    /\ cs_pc' = cs_while
    /\ current_block' = NoBlock
    /\ CsFrame

CsCommitRaises ==
    /\ cs_pc = "commit"
    /\ cs_pc' = cs_while
    /\ current_block' = NoBlock
    /\ UNCHANGED commitState
    /\ CsFrame

\* The steps a task takes without an interval having to pass.
TaskStep ==
    \/ MgStart \/ MgHeadReturns \/ MgHeadInvalid \/ MgHeadRaises
    \/ MgCacheReturns \/ MgCacheRaises \/ MgWaitStopped
    \/ HpStart \/ HpFetchReturns \/ HpFetchRaises \/ HpWaitStopped
    \/ CsStartupReturns \/ CsStartupRaises \/ CsWaitStopped
    \/ CsGetWeightsReturns \/ CsGetWeightsEmpty \/ CsGetWeightsRaises
    \/ CsCommitReturns \/ CsCommitRaises
    \/ Gathered

TasksNext ==
    \/ AdvanceChain
    \/ CacheExpire
    \/ Shutdown
    \/ MgWaitTimeout
    \/ HpWaitTimeout
    \/ CsWaitTimeout
    \/ TaskStep

(***************************************************************************)
(* get_metagraph and cache_metagraph (pylon_service/bittensor_client.py)   *)
(* called by request handlers.  A miss awaits the block and then the       *)
(* neurons; other callers run at these awaits.  The object stored is named *)
(* by the number of the store that made it.                                *)
(***************************************************************************)
Callers == {"c1", "c2"}
CacheBlocks == {1, 2}
NoObject == 0

IdleCaller ==
    [pc |-> "idle", block |-> NoBlock, requests |-> 0, retried |-> 0, overlapped |-> 0]

CacheEvent(kind, caller, block, object, requests, overlapped) ==
    [kind |-> kind, caller |-> caller, block |-> block, object |-> object,
     requests |-> requests, overlapped |-> overlapped]

CacheIdle ==
    /\ gm_caller = [c \in Callers |-> IdleCaller]
    /\ gm_calls = 0
    /\ gm_log = <<>>

CacheFrame ==
    /\ UNCHANGED <<poolVars, fbVars, epVars, awVars, twVars, rqVars, wsVars, auVars, bcVars>>
    /\ UNCHANGED <<envVars, mg_pc, new_block, app_latest_block, current_epoch_start,
                   hpVars, csVars>>

\* if block not in app.state.metagraph_cache
cache_miss_always(block) == TRUE
cache_miss(block) == block \notin DOMAIN metagraph_cache

\* A handler awaits get_metagraph(app, block=b): a hit returns the cached
\* object at once, a miss asks the chain for the block.
GetMetagraph ==
    /\ gm_calls < MaxCacheCalls
    /\ \E c \in Callers, b \in CacheBlocks :
          /\ gm_caller[c].pc = "idle"
          /\ LET busy == \E d \in Callers : gm_caller[d].pc # "idle"
                 flag == IF busy THEN 1 ELSE 0
                 others == [d \in Callers |->
                              IF d # c /\ gm_caller[d].pc # "idle"
                              THEN [gm_caller[d] EXCEPT !.overlapped = 1]
                              ELSE gm_caller[d]]
             IN  IF cache_miss(b)
                 THEN /\ gm_caller' = [others EXCEPT ![c] =
                            [IdleCaller EXCEPT !.pc = "block_get", !.block = b,
                                               !.overlapped = flag]]
                      /\ UNCHANGED gm_log
                 ELSE /\ gm_caller' = others
                      /\ gm_log' = Append(gm_log,
                            CacheEvent("returned", c, b, metagraph_cache[b], 0, flag))
    /\ gm_calls' = gm_calls + 1
    /\ UNCHANGED <<metagraph_cache, mc_stores>>
    /\ CacheFrame

\* client.block(block).get() returns the block: cache_metagraph asks for the
\* neurons.
GmBlockReturns ==
    /\ \E c \in Callers :
          /\ gm_caller[c].pc = "block_get"
          /\ gm_caller' = [gm_caller EXCEPT ![c].pc = "list_neurons",
                                            ![c].requests = @ + 1]
    /\ UNCHANGED <<metagraph_cache, mc_stores, gm_calls, gm_log>>
    /\ CacheFrame

\* client.block(block).get() returns None: ValueError.
GmBlockInvalid ==
    /\ \E c \in Callers :
          /\ gm_caller[c].pc = "block_get"
          /\ gm_log' = Append(gm_log,
                CacheEvent("raised", c, gm_caller[c].block, NoObject,
                           gm_caller[c].requests + 1, gm_caller[c].overlapped))
          /\ gm_caller' = [gm_caller EXCEPT ![c] = IdleCaller]
    /\ UNCHANGED <<metagraph_cache, mc_stores, gm_calls>>
    /\ CacheFrame

\* A chain request raises UnknownBlock: archive_fallback runs get_metagraph
\* once more with the archive client, and lets the second UnknownBlock out.
GmUnknownBlock ==
    /\ \E c \in Callers :
          /\ gm_caller[c].pc \in {"block_get", "list_neurons"}
          /\ LET call == [gm_caller[c] EXCEPT !.requests = @ + 1]
             IN  IF call.retried = 1
                 THEN /\ gm_log' = Append(gm_log,
                            CacheEvent("raised", c, call.block, NoObject,
                                       call.requests, call.overlapped))
                      /\ gm_caller' = [gm_caller EXCEPT ![c] = IdleCaller]
                 ELSE IF cache_miss(call.block)
                 THEN /\ gm_caller' = [gm_caller EXCEPT ![c] =
                            [call EXCEPT !.pc = "block_get", !.retried = 1]]
                      /\ UNCHANGED gm_log
                 ELSE /\ gm_log' = Append(gm_log,
                            CacheEvent("returned", c, call.block,
                                       metagraph_cache[call.block],
                                       call.requests, call.overlapped))
                      /\ gm_caller' = [gm_caller EXCEPT ![c] = IdleCaller]
    /\ UNCHANGED <<metagraph_cache, mc_stores, gm_calls>>
    /\ CacheFrame

\* A chain request raises another exception.
GmRaises ==
    /\ \E c \in Callers :
          /\ gm_caller[c].pc \in {"block_get", "list_neurons"}
          /\ gm_log' = Append(gm_log,
                CacheEvent("raised", c, gm_caller[c].block, NoObject,
                           gm_caller[c].requests + 1, gm_caller[c].overlapped))
          /\ gm_caller' = [gm_caller EXCEPT ![c] = IdleCaller]
    /\ UNCHANGED <<metagraph_cache, mc_stores, gm_calls>>
    /\ CacheFrame

\* list_neurons returns: cache_metagraph stores the new Metagraph and
\* get_metagraph returns what the cache holds for the block.
GmNeuronsReturns ==
    /\ \E c \in Callers :
          /\ gm_caller[c].pc = "list_neurons"
          /\ metagraph_cache' =
                cache_store(metagraph_cache, gm_caller[c].block, mc_stores + 1)
          /\ gm_log' = Append(gm_log,
                CacheEvent("returned", c, gm_caller[c].block,
                           metagraph_cache'[gm_caller[c].block],
                           gm_caller[c].requests + 1, gm_caller[c].overlapped))
          /\ gm_caller' = [gm_caller EXCEPT ![c] = IdleCaller]
    /\ mc_stores' = mc_stores + 1
    /\ UNCHANGED gm_calls
    /\ CacheFrame

\* An entry leaves the cache while handlers use it; the log keeps the removal.
GmCacheExpire ==
    /\ \E b \in DOMAIN metagraph_cache :
          /\ metagraph_cache' = cache_remove(metagraph_cache, b)
          /\ gm_log' = Append(gm_log,
                CacheEvent("removed", "none", b, metagraph_cache[b], 0, 0))
    /\ UNCHANGED <<mc_stores, gm_caller, gm_calls>>
    /\ CacheFrame

CacheNext ==
    \/ GetMetagraph
    \/ GmBlockReturns
    \/ GmBlockInvalid
    \/ GmUnknownBlock
    \/ GmRaises
    \/ GmNeuronsReturns
    \/ GmCacheExpire

(***************************************************************************)
(* BittensorClient.open / close (pylon/service/bittensor/client.py         *)
(* 339-345) over its two TurboBtClient sub-clients (147-157).  A           *)
(* sub-client is "closed" while its _raw_client is None; open() sets       *)
(* _raw_client and awaits __aenter__, close() awaits __aexit__ and then    *)
(* resets _raw_client.  Either await may raise.  One caller makes the      *)
(* calls one after the other.                                              *)
(***************************************************************************)
SubClientStates ==
    {"closed", "entering", "open", "open_failed", "exiting", "close_failed"}

ClientCall(operation, outcome) == [operation |-> operation, outcome |-> outcome]

\* `self._raw_client is None`
raw_client_is_none(state) == state = "closed"

ClientIdle ==
    /\ bc_main = "closed"
    /\ bc_archive = "closed"
    /\ bc_pc = "idle"
    /\ bc_calls = 0
    /\ bc_log = <<>>

ClientFrame ==
    UNCHANGED <<poolVars, fbVars, epVars, awVars, twVars, rqVars, wsVars, auVars,
                ptVars, gmVars>>

\* The call under way ends: it returned, or an exception left it.
ClientReturn(operation, outcome) ==
    /\ bc_pc' = "idle"
    /\ bc_log' = Append(bc_log, ClientCall(operation, outcome))

\* BittensorClient.open() up to its first await: TurboBtClient.open() of the
\* main sub-client asserts, sets _raw_client and awaits __aenter__ (147-151).
BittensorClientOpen ==
    /\ bc_pc = "idle"
    /\ bc_calls < MaxClientCalls
    /\ bc_calls' = bc_calls + 1
    /\ IF raw_client_is_none(bc_main)
       THEN /\ bc_main' = "entering"
            /\ bc_pc' = "open_main"
            /\ UNCHANGED bc_log
       ELSE /\ ClientReturn("open", "AssertionError")
            /\ UNCHANGED bc_main
    /\ UNCHANGED bc_archive
    /\ ClientFrame

\* __aenter__ of the main sub-client returns: open() goes on to the archive
\* sub-client (340-341).
MainEnterReturns ==
    /\ bc_pc = "open_main"
    /\ bc_main' = "open"
    /\ IF raw_client_is_none(bc_archive)
       THEN /\ bc_archive' = "entering"
            /\ bc_pc' = "open_archive"
            /\ UNCHANGED bc_log
       ELSE /\ ClientReturn("open", "AssertionError")
            /\ UNCHANGED bc_archive
    /\ UNCHANGED bc_calls
    /\ ClientFrame

\* __aenter__ of the main sub-client raises: _raw_client stays set and the
\* exception leaves open().
MainEnterRaises ==
    /\ bc_pc = "open_main"
    /\ bc_main' = "open_failed"
    /\ ClientReturn("open", "raised")
    /\ UNCHANGED <<bc_archive, bc_calls>>
    /\ ClientFrame

ArchiveEnterReturns ==
    /\ bc_pc = "open_archive"
    /\ bc_archive' = "open"
    /\ ClientReturn("open", "returned")
    /\ UNCHANGED <<bc_main, bc_calls>>
    /\ ClientFrame

\* __aenter__ of the archive sub-client raises: nothing closes the main one.
ArchiveEnterRaises ==
    /\ bc_pc = "open_archive"
    /\ bc_archive' = "open_failed"
    /\ ClientReturn("open", "raised")
    /\ UNCHANGED <<bc_main, bc_calls>>
    /\ ClientFrame

\* BittensorClient.close() up to its first await: TurboBtClient.close() of
\* the main sub-client asserts and awaits __aexit__ (153-156).
BittensorClientClose ==
    /\ bc_pc = "idle"
    /\ bc_calls < MaxClientCalls
    /\ bc_calls' = bc_calls + 1
    /\ IF raw_client_is_none(bc_main)
       THEN /\ ClientReturn("close", "AssertionError")
            /\ UNCHANGED bc_main
       ELSE /\ bc_main' = "exiting"
            /\ bc_pc' = "close_main"
            /\ UNCHANGED bc_log
    /\ UNCHANGED bc_archive
    /\ ClientFrame

\* __aexit__ of the main sub-client returns: _raw_client is reset (157) and
\* close() goes on to the archive sub-client (344-345).
MainExitReturns ==
    /\ bc_pc = "close_main"
    /\ bc_main' = "closed"
    /\ IF raw_client_is_none(bc_archive)
       THEN /\ ClientReturn("close", "AssertionError")
            /\ UNCHANGED bc_archive
       ELSE /\ bc_archive' = "exiting"
            /\ bc_pc' = "close_archive"
            /\ UNCHANGED bc_log
    /\ UNCHANGED bc_calls
    /\ ClientFrame

\* __aexit__ of the main sub-client raises: _raw_client stays set and the
\* archive sub-client is not closed.
MainExitRaises ==
    /\ bc_pc = "close_main"
    /\ bc_main' = "close_failed"
    /\ ClientReturn("close", "raised")
    /\ UNCHANGED <<bc_archive, bc_calls>>
    /\ ClientFrame

ArchiveExitReturns ==
    /\ bc_pc = "close_archive"
    /\ bc_archive' = "closed"
    /\ ClientReturn("close", "returned")
    /\ UNCHANGED <<bc_main, bc_calls>>
    /\ ClientFrame

ArchiveExitRaises ==
    /\ bc_pc = "close_archive"
    /\ bc_archive' = "close_failed"
    /\ ClientReturn("close", "raised")
    /\ UNCHANGED <<bc_main, bc_calls>>
    /\ ClientFrame

ClientNext ==
    \/ BittensorClientOpen
    \/ MainEnterReturns \/ MainEnterRaises
    \/ ArchiveEnterReturns \/ ArchiveEnterRaises
    \/ BittensorClientClose
    \/ MainExitReturns \/ MainExitRaises
    \/ ArchiveExitReturns \/ ArchiveExitRaises

(***************************************************************************)
(* The specifications.                                                     *)
(***************************************************************************)
FallbackUnused ==
    /\ FallbackIdle
    /\ fb_call = [impl |-> "none", operation |-> "none", block |-> NoBlock,
                  latest |-> NoBlock, main |-> "ok", archive |-> "ok"]
    /\ archive_blocks_cutoff = 0

JobUnused ==
    /\ JobIdle
    /\ settings = [weights_retry_attempts |-> 0, weights_retry_delay_seconds |-> 0,
                   weights_call_timeout_seconds |-> 1, tempo |-> 1,
                   bittensor_netuid |-> 1]
    /\ hyperparams = "absent"

RequestUnused == RequestIdle /\ max_attempt_number = 1

InitPool ==
    /\ PoolInit /\ FallbackUnused /\ EpochIdle /\ JobUnused
    /\ WeightsUnused /\ RequestUnused
    /\ StoreUnused
    /\ EndpointUnused
    /\ TasksUnused
    /\ CacheIdle
    /\ ClientIdle
SpecPool == InitPool /\ [][PoolNext]_vars

InitFallback ==
    /\ PoolInit /\ FallbackIdle /\ archive_blocks_cutoff \in 0..MaxCutoff
    /\ EpochIdle /\ JobUnused /\ WeightsUnused /\ RequestUnused
    /\ StoreUnused
    /\ EndpointUnused
    /\ TasksUnused
    /\ CacheIdle
    /\ ClientIdle
SpecFallback == InitFallback /\ [][FallbackNext]_vars

InitEpoch == InitPool
EpochNext == GetEpoch
SpecEpoch == InitEpoch /\ [][EpochNext]_vars

InitJob ==
    /\ PoolInit /\ FallbackUnused /\ EpochIdle /\ JobIdle
    /\ WeightsUnused /\ RequestUnused
    /\ StoreUnused
    /\ EndpointUnused
    /\ TasksUnused
    /\ CacheIdle
    /\ ClientIdle
SpecJob == InitJob /\ [][JobNext]_vars

InitWeights ==
    /\ PoolInit /\ FallbackUnused /\ EpochIdle /\ JobUnused /\ RequestUnused
    /\ WeightsIdle
    /\ tw_neurons \in NeuronLists
    /\ tw_weights \in WeightsMappings
    /\ StoreUnused
    /\ EndpointUnused
    /\ TasksUnused
    /\ CacheIdle
    /\ ClientIdle
SpecWeights == InitWeights /\ [][WeightsNext]_vars

InitRequest ==
    /\ PoolInit /\ FallbackUnused /\ EpochIdle /\ JobUnused /\ WeightsUnused
    /\ RequestIdle
    /\ max_attempt_number \in 1..MaxAttempts
    /\ StoreUnused
    /\ EndpointUnused
    /\ TasksUnused
    /\ CacheIdle
    /\ ClientIdle
SpecRequest == InitRequest /\ [][RequestNext]_vars

InitStore ==
    /\ PoolInit /\ FallbackUnused /\ EpochIdle /\ JobUnused /\ WeightsUnused
    /\ RequestUnused
    /\ StoreIdle
    /\ ws_rows \in InitialRows
    /\ EndpointUnused
    /\ TasksUnused
    /\ CacheIdle
    /\ ClientIdle
SpecStore == InitStore /\ [][StoreNext]_vars

InitEndpoint ==
    /\ PoolInit /\ FallbackUnused /\ EpochIdle /\ JobUnused /\ WeightsUnused
    /\ RequestUnused /\ StoreUnused
    /\ EndpointIdle
    /\ auth_token \in AuthTokens
    /\ TasksUnused
    /\ CacheIdle
    /\ ClientIdle
SpecEndpoint == InitEndpoint /\ [][EndpointNext]_vars

InitTasks ==
    /\ PoolInit /\ FallbackUnused /\ EpochIdle /\ JobUnused /\ WeightsUnused
    /\ RequestUnused /\ StoreUnused /\ EndpointUnused
    /\ TasksIdle
    /\ pt_settings \in TaskSettings
    /\ CacheIdle
    /\ ClientIdle
SpecTasks == InitTasks /\ [][TasksNext]_vars

\* The event loop runs every task that is ready: a step that needs no interval
\* to pass and stays possible is taken.  Nothing makes an interval pass.
\* One setting is enough: no step towards the end of a task reads the settings.
InitTasksFair ==
    /\ InitTasks
    /\ pt_settings.commit_cycle_length = 1
    /\ pt_settings.commit_window_start_offset = 0
SpecTasksFair == InitTasksFair /\ [][TasksNext]_vars /\ WF_vars(TaskStep)

InitCache ==
    /\ PoolInit /\ FallbackUnused /\ EpochIdle /\ JobUnused /\ WeightsUnused
    /\ RequestUnused /\ StoreUnused /\ EndpointUnused /\ TasksUnused
    /\ CacheIdle
    /\ ClientIdle
SpecCache == InitCache /\ [][CacheNext]_vars

InitClient ==
    /\ PoolInit /\ FallbackUnused /\ EpochIdle /\ JobUnused /\ WeightsUnused
    /\ RequestUnused /\ StoreUnused /\ EndpointUnused /\ TasksUnused
    /\ CacheIdle /\ ClientIdle
SpecClient == InitClient /\ [][ClientNext]_vars

(***************************************************************************)
(* Claims about the pool, under SpecPool.                                  *)
(***************************************************************************)
HoldsHandle(t) == pc[t] \in {"holding", "release"}

\* C1: close() leaves its wait only with the acquire counter at 0, and the
\* pool never calls close() on a client while a task still holds a handle to it.
C1_CloseWaitsForHandles ==
    /\ \A t \in Tasks : pc[t] = "close_drained" => acquire_counter = 0
    /\ \A t \in Tasks :
          HoldsHandle(t) => client_state[client[t]] \notin {"closed", "close_failed"}

\* A close() that waited for a handle has been woken by its release, with the
\* counter at 0 and the pooled client still open.
C1_Witness ==
    \E t \in Tasks, u \in Tasks, k \in WalletKeys :
        /\ pc[t] = "close_recheck" /\ acquire_counter = 0
        /\ op[u] = "acquire" /\ result[u] = "released"
        /\ in_pool(k) /\ client_state[pool[k]] = "open"

\* C2: an acquire() that gets the lock in the closing state raises
\* BittensorClientPoolClosing, one on a pool that is not open raises
\* BittensorClientPoolClosed; either way the counter, the pool map and the
\* clients are as before.
C2_AcquireRefused ==
    [][\A t \in Tasks :
          (pc[t] = "acquire_locked" /\ pc'[t] # "acquire_locked") =>
              /\ closing_state => result'[t] = "PoolClosing"
              /\ (~closing_state /\ ~is_open) => result'[t] = "PoolClosed"
              /\ (closing_state \/ ~is_open) =>
                    /\ acquire_counter' = acquire_counter
                    /\ pool' = pool
                    /\ client_state' = client_state
                    /\ pc'[t] = "idle"]_vars

\* An acquire() was refused while a close() was under way.
C2_Witness ==
    \E t \in Tasks : op[t] = "acquire" /\ result[t] = "PoolClosing" /\ closing_state

\* C3: within one open period of the pool (from open() to the end of close()),
\* the tasks that hold a handle for the same wallet key hold the same client,
\* and at most one client is created for a key.
C3_SharedClient ==
    /\ \A t \in Tasks, u \in Tasks :
          ( /\ HoldsHandle(t) /\ HoldsHandle(u)
            /\ wallet_key[t] = wallet_key[u]
            /\ handle_period[t] = handle_period[u] ) => client[t] = client[u]
    /\ \A c \in Clients, d \in Clients :
          ( /\ client_state[c] # "none" /\ client_state[d] # "none"
            /\ client_key[c] = client_key[d]
            /\ client_period[c] = client_period[d] ) => c = d

\* Two tasks hold a handle for the same wallet key at the same time.
C3_Witness ==
    \E t \in Tasks, u \in Tasks :
        /\ t # u /\ pc[t] = "holding" /\ pc[u] = "holding"
        /\ wallet_key[t] = wallet_key[u]
        /\ client[t] = client[u] /\ client[t] # NoClient

\* C4: in the closing state open() raises BittensorClientPoolClosing and
\* changes nothing, no acquire gets a handle or increments the counter, is_open
\* stays as it is, and the closing state is left only for the closed state
\* (is_open false, closing false, empty pool).
C4_ClosingTerminal ==
    [][closing_state =>
          /\ closing_state' => is_open' = is_open
          /\ ~closing_state' => (~is_open' /\ \A k \in WalletKeys : pool'[k] = NoClient)
          /\ acquire_counter' <= acquire_counter
          /\ \A t \in Tasks :
                /\ (pc[t] = "open" /\ pc'[t] = "idle") => result'[t] = "PoolClosing"
                /\ ~(pc[t] # "holding" /\ pc'[t] = "holding")]_vars

\* open() was refused while a close() was under way.
C4_Witness ==
    \E t \in Tasks : op[t] = "open" /\ result[t] = "PoolClosing" /\ closing_state

\* The tasks that account for one unit of the counter: those that hold a handle
\* and those inside acquire() between the increment and the yield.
InAcquire(t) == pc[t] \in {"acquire_opening", "acquire_opened", "acquire_open_failed"}
HandlesHeld == Cardinality({t \in Tasks : HoldsHandle(t) \/ InAcquire(t)})

\* C28: in every reachable state the acquire counter equals the number of
\* handles currently held (an acquire under way counted with them), and so is
\* never negative, also after an acquire whose new client raised in open().
C28_CounterIsHandles ==
    /\ acquire_counter >= 0
    /\ acquire_counter = HandlesHeld

\* C29: close() and the releases cannot deadlock each other: a task that
\* releases is never made to wait, and a close() is in its wait only while a
\* handle acquired before it is still outstanding, so that once these handles
\* are released the close proceeds.
C29_CloseWaitsOnlyForHandles ==
    /\ \A t \in Tasks : pc[t] = "release" => \E i \in 1..Len(ready) : ready[i] = t
    /\ \A t \in Tasks : pc[t] = "close_wait_condition" => HandlesHeld > 0

CloseAttempted(c) == client_state[c] \in {"closed", "close_failed"}

\* C30: closing the pooled clients is best-effort: when close() of some pooled
\* clients raised, close() was still called on every pooled client, the pool's
\* close() returns without raising, and the pool ends closed with an empty
\* client map.
C30_BestEffortClose ==
    [][\A t \in Tasks :
          (pc[t] = "close_finish" /\ pc'[t] = "idle") =>
              /\ \A k \in WalletKeys : in_pool(k) => CloseAttempted(pool[k])
              /\ result'[t] = "ok"
              /\ ~is_open' /\ ~closing_state'
              /\ \A k \in WalletKeys : pool'[k] = NoClient]_vars

\* A close() has returned on a pool of two clients of which one raised in its
\* close() and the other was closed.
C30_Witness ==
    \E t \in Tasks, c \in Clients, d \in Clients :
        /\ op[t] = "close" /\ pc[t] = "idle" /\ result[t] = "ok"
        /\ ~is_open /\ \A k \in WalletKeys : pool[k] = NoClient
        /\ c # d /\ client_period[c] = client_period[d]
        /\ client_state[c] = "close_failed" /\ client_state[d] = "closed"

\* The close() calls that are past the wait and closing the clients.
Draining(t) == pc[t] \in {"close_drained", "close_clients", "close_closing", "close_finish"}

\* C31: whatever the interleaving of concurrent close() calls, the pool calls
\* close() on each pooled client at most once and at most one close() call is
\* draining the pool.
C31_OneDrain ==
    /\ \A c \in Clients : close_calls[c] <= 1
    /\ Cardinality({t \in Tasks : Draining(t)}) <= 1

(***************************************************************************)
(* Claims about the archive fallback, under SpecFallback.                  *)
(***************************************************************************)
Returned == fb_call.impl # "none"
WrapperRead ==
    /\ fb_call.impl = "wrapper" /\ fb_call.operation \in ReadOperations
    /\ fb_call.block # NoBlock /\ fb_call.latest # NoBlock
TheCall == Call(fb_call.operation, fb_call.block)
LatestCall == Call("get_latest_block", NoBlock)

\* C5: a read of a block more than archive_blocks_cutoff behind the latest
\* block runs on the archive client only (main is asked for the latest block
\* and nothing else); at exactly the cutoff the read runs on the main client.
C5_StaleBlockToArchive ==
    WrapperRead =>
        /\ fb_call.latest - fb_call.block > archive_blocks_cutoff =>
              /\ main_calls = <<LatestCall>>
              /\ archive_calls = <<TheCall>>
              /\ fb_outcome = Outcome(fb_call.archive, "archive")
        /\ fb_call.latest - fb_call.block = archive_blocks_cutoff =>
              main_calls = <<LatestCall, TheCall>>

\* A read of the block one past the cutoff went to the archive client.
C5_Witness ==
    /\ WrapperRead
    /\ fb_call.latest - fb_call.block = archive_blocks_cutoff + 1
    /\ archive_calls = <<TheCall>>

\* C6: a read of a block within the cutoff runs on main first; when main
\* raises UnknownBlock the same call is made once on the archive client and
\* its outcome is the caller's; when main succeeds the archive is not called.
C6_RecentBlockMainFirst ==
    (WrapperRead /\ fb_call.latest - fb_call.block <= archive_blocks_cutoff) =>
        /\ main_calls = <<LatestCall, TheCall>>
        /\ fb_call.main = "UnknownBlock" =>
              /\ archive_calls = <<TheCall>>
              /\ fb_outcome = Outcome(fb_call.archive, "archive")
        /\ fb_call.main = "ok" =>
              /\ archive_calls = <<>>
              /\ fb_outcome = Outcome("ok", "main")

\* Main raised UnknownBlock for a recent block and the archive was asked.
C6_Witness ==
    /\ WrapperRead /\ fb_call.latest - fb_call.block <= archive_blocks_cutoff
    /\ fb_call.main = "UnknownBlock"
    /\ archive_calls = <<TheCall>>

\* C7: a read with block = None uses the main client only: the operation is
\* called on main, get_latest_block is not called, the archive is not called.
\* Stated for the runs where the chain answers every call (the latest block
\* is known and the main client's operation succeeds).
C7_LatestMainOnly ==
    ( /\ Returned /\ fb_call.block = NoBlock
      /\ fb_call.operation \in ReadOperations
      /\ fb_call.latest # NoBlock /\ fb_call.main = "ok" ) =>
        /\ main_calls = <<TheCall>>
        /\ archive_calls = <<>>
        /\ fb_outcome = Outcome("ok", "main")

\* C8: get_block, get_latest_block, commit_weights, set_weights and
\* generate_certificate_keypair never call the archive client.
C8_MainOnlyNeverArchive ==
    (Returned /\ fb_call.operation \in MainOnlyOperations) => archive_calls = <<>>

C10_EpochContainsBlock ==
    ep_args # NoArgs =>
        /\ ep_result.epoch_start <= ep_args.block
        /\ ep_args.block < ep_result.epoch_end

\* The epoch of a block that is itself an epoch start.
C10_Witness ==
    /\ ep_args # NoArgs
    /\ ep_args.block > 0
    /\ ep_result.epoch_start = ep_args.block

\* C11: the calculator is idempotent on epoch starts: the epoch computed for
\* the start of the returned epoch (same netuid and tempo) starts at that
\* same block.
C11_EpochStartIdempotent ==
    ep_args # NoArgs =>
        get_epoch_containing_block(ep_result.epoch_start, ep_args.netuid,
                                   ep_args.tempo).epoch_start
            = ep_result.epoch_start

\* The epoch of a block strictly inside its epoch, so that the start is a
\* different block from the one asked about.
C11_Witness ==
    /\ ep_args # NoArgs
    /\ ep_result.epoch_start > 0
    /\ ep_result.epoch_start < ep_args.block

\* C40: the epoch windows partition the block numbers: every block of the
\* window returned for a block has that same window as its epoch (same
\* netuid and tempo), and the window of the block at which it ends starts
\* there.
C40_EpochsPartition ==
    ep_args # NoArgs =>
        /\ \A other \in ep_result.epoch_start .. (ep_result.epoch_end - 1) :
               get_epoch_containing_block(other, ep_args.netuid, ep_args.tempo)
                   = ep_result
        /\ get_epoch_containing_block(ep_result.epoch_end, ep_args.netuid,
                                      ep_args.tempo).epoch_start
               = ep_result.epoch_end

\* The epoch of a block with blocks of the same window on both sides of it,
\* in a window that does not start below block 0.
C40_Witness ==
    /\ ep_args # NoArgs
    /\ ep_result.epoch_start >= 0
    /\ ep_result.epoch_start < ep_args.block
    /\ ep_args.block < ep_result.epoch_end - 1
    /\ ep_result.epoch_end - ep_result.epoch_start = ep_args.tempo + 1

(***************************************************************************)
(* Claims about the ApplyWeights job, under SpecJob.                       *)
(***************************************************************************)
IsSubmission(e) == e.kind = "call" /\ e.op \in {"commit", "set"}
LogIndex == 1..Len(aw_log)
Attempts == {i \in LogIndex : aw_log[i].kind = "attempt"}
Sleeps == SelectSeq(aw_log, LAMBDA e : e.kind = "sleep")

\* C12: a submission call (commit or set) that succeeded is the last chain
\* call of the job and ends it: nothing follows it in the job's log, so no
\* job has two accepted submissions.
C12_FirstSuccessEndsJob ==
    \A i \in LogIndex :
        (IsSubmission(aw_log[i]) /\ aw_log[i].result = "ok") =>
            /\ i = Len(aw_log)
            /\ aw_pc = "done"
            /\ aw_result = "completed"

\* A job that succeeded on a retry, after a submission call had raised and
\* with iterations of the loop still left.
C12_Witness ==
    /\ aw_result = "completed"
    /\ retry_no >= 1
    /\ retry_no < settings.weights_retry_attempts
    /\ \E i \in LogIndex : IsSubmission(aw_log[i]) /\ aw_log[i].result = "raises"

\* C13: once the chain's head is past the end of the epoch the job started
\* in, the job makes no further submission: no commit or set call belongs to
\* an attempt that began with the head there.
C13_TempoExpiryCancels ==
    \A i \in Attempts : \A j \in LogIndex :
        (aw_log[i].arg = 1 /\ IsSubmission(aw_log[j])) =>
            aw_log[j].no # aw_log[i].no

\* C14: the job makes at most weights_retry_attempts + 1 attempts, and every
\* attempt but the first directly follows the end of the retry sleep that
\* followed an exception raised in the attempt before it.
C14_BoundedSequentialAttempts ==
    /\ Cardinality(Attempts) <= settings.weights_retry_attempts + 1
    /\ \A i \in Attempts :
          \/ i = 1 /\ aw_log[i].no = 0
          \/ /\ i > 3
             /\ aw_log[i - 1].kind = "slept"
             /\ aw_log[i - 2].kind = "sleep"
             /\ aw_log[i - 3].kind = "call" /\ aw_log[i - 3].result = "raises"
             /\ aw_log[i - 1].no = aw_log[i].no - 1
             /\ aw_log[i - 3].no = aw_log[i].no - 1

\* The last attempt the settings allow, made after earlier ones failed.
C14_Witness ==
    /\ settings.weights_retry_attempts >= 2
    /\ \E i \in Attempts : aw_log[i].no = settings.weights_retry_attempts

Min(a, b) == IF a <= b THEN a ELSE b
RECURSIVE Pow2(_)
Pow2(n) == IF n = 0 THEN 1 ELSE 2 * Pow2(n - 1)

\* C15: the sleep after the k-th consecutive failure lasts
\* min(initial * 2^(k-1), 10 * initial) seconds, initial being
\* weights_retry_delay_seconds.
C15_SleepDoubles ==
    \A k \in 1..Len(Sleeps) :
        Sleeps[k].arg = Min(settings.weights_retry_delay_seconds * Pow2(k - 1),
                            10 * settings.weights_retry_delay_seconds)

\* C16: the timeout is per attempt, so the job does not end with the timeout
\* while iterations of the retry loop remain.
C16_TimeoutPerAttempt ==
    aw_result = "TimeoutError" => ~iterations_remain(retry_no)

\* C17: the weights call of an attempt is commit exactly when the
\* commit_reveal_weights_enabled the attempt fetched is enabled; with the
\* value absent or disabled the call is set.
C17_CommitIffEnabled ==
    \A i \in LogIndex : \A j \in LogIndex :
        ( /\ aw_log[i].kind = "call" /\ aw_log[i].op = "get_hyperparameters"
          /\ IsSubmission(aw_log[j])
          /\ aw_log[j].no = aw_log[i].no ) =>
            /\ aw_log[j].op = "commit" <=> aw_log[i].result = "True"
            /\ aw_log[i].result \in {"absent", "False"} => aw_log[j].op = "set"

\* A job that set the weights because the hyperparameter was disabled.
C17_Witness ==
    /\ aw_result = "completed"
    /\ hyperparams = "False"
    /\ aw_log[Len(aw_log)].op = "set"

(***************************************************************************)
(* Claim about the hotkey translation, under SpecWeights.                  *)
(***************************************************************************)
Submitted == tw_call.method # "none" /\ tw_call.raised \in {"none", "weights"}
InTable(h) == \E i \in DOMAIN tw_neurons : tw_neurons[i].hotkey = h
UidOf(h) == tw_neurons[CHOOSE i \in DOMAIN tw_neurons : tw_neurons[i].hotkey = h].uid

\* C18: the mapping handed to the chain holds exactly one entry uid(h) -> w
\* for every (h, w) of the request whose hotkey is among the neurons of the
\* latest block; hotkeys not among them are dropped, and no weight changes.
C18_TranslationDropsOnlyAbsent ==
    Submitted =>
        LET present == {h \in DOMAIN tw_weights : InTable(h)}
        IN  /\ DOMAIN tw_submitted = {UidOf(h) : h \in present}
            /\ \A h \in present : tw_submitted[UidOf(h)] = tw_weights[h]
            /\ tw_missing = DOMAIN tw_weights \ present

\* A submission from a request that names both a registered hotkey and one
\* the subnet does not know, the registered one not being uid 0.
C18_Witness ==
    /\ Submitted
    /\ tw_missing # {}
    /\ \E u \in DOMAIN tw_submitted : u > 0

\* C34: a job that has ended has ended on its first success, on tempo expiry
\* or with its attempts exhausted, and the chain client it opened is closed.
C34_EndsOnListedExit ==
    aw_pc = "done" =>
        /\ aw_client = "closed"
        /\ aw_result \in {"completed", "tempo_changed", "exhausted"}

(***************************************************************************)
(* Claims about the client transport, under SpecRequest.                   *)
(***************************************************************************)
RequestDone == rq_pc = "done" /\ rq_result.type # "AssertionError"
TransportErrors(n) ==
    /\ n <= Len(rq_log)
    /\ \A i \in 1..n : rq_log[i].outcome = "RequestError"

\* C19: a request is attempted at most max_attempt_number (n) times; when
\* attempts 1..k-1 fail with transport errors and attempt k (k <= n) gets a
\* 2xx response, the request returns that response after exactly k attempts;
\* when n attempts fail with transport errors, the request raises
\* PylonRequestException after exactly n attempts.
C19_AttemptsBounded ==
    /\ Len(rq_log) <= max_attempt_number
    /\ \A k \in 1..Len(rq_log) :
          ( /\ TransportErrors(k - 1)
            /\ rq_log[k].outcome = "response" /\ is_success(rq_log[k].status) ) =>
              /\ Len(rq_log) = k
              /\ rq_pc = "done"
              /\ rq_result.type = "response"
              /\ rq_result.status = rq_log[k].status
    /\ TransportErrors(max_attempt_number) =>
          /\ Len(rq_log) = max_attempt_number
          /\ rq_pc = "done"
          /\ rq_result.type = "PylonRequestException"
    /\ (rq_pc = "done" /\ rq_result.type = "PylonRequestException") =>
          TransportErrors(max_attempt_number)

\* A request that succeeded on its last allowed attempt after transport
\* errors in the earlier ones.
C19_Witness ==
    /\ max_attempt_number >= 3
    /\ rq_result.type = "response"
    /\ Len(rq_log) = max_attempt_number
    /\ TransportErrors(max_attempt_number - 1)

\* C20: a non-2xx response is never retried: it is the last attempt of the
\* request, which raises the status exception carrying the status, the
\* request and the response.
C20_StatusErrorNotRetried ==
    \A i \in 1..Len(rq_log) :
        (rq_log[i].outcome = "response" /\ ~is_success(rq_log[i].status)) =>
            /\ i = Len(rq_log)
            /\ rq_pc = "done"
            /\ rq_result = [type |-> "PylonHttpStatusException",
                            status |-> rq_log[i].status,
                            request |-> rq_request,
                            response |-> rq_log[i].status]

\* A non-2xx response after a transport error, with attempts left.
C20_Witness ==
    /\ rq_result.type = "PylonHttpStatusException"
    /\ Len(rq_log) >= 2
    /\ Len(rq_log) < max_attempt_number
    /\ TransportErrors(Len(rq_log) - 1)



(***************************************************************************)
(* Claims about the weight store, under SpecStore.                         *)
(***************************************************************************)
\* The weights the table holds for (hotkey, epoch), in id order.
StoreEntries(rows, hotkey, epoch) ==
    LET keep(r) == r.hotkey = hotkey /\ r.epoch = epoch
        weights[i \in 0..Len(rows)] ==
            IF i = 0 THEN <<>>
            ELSE IF keep(rows[i]) THEN Append(weights[i - 1], rows[i].weight)
                 ELSE weights[i - 1]
    IN  weights[Len(rows)]

\* The call just completed follows, with nothing in between and no other call
\* in progress, a write to the same (hotkey, epoch) that found no entry.
FollowsFirstWrite(log) ==
    /\ Len(log) >= 2
    /\ LET c1 == log[Len(log) - 1]
           c2 == log[Len(log)]
       IN  /\ c1.op \in {"set_weight", "update_weight"}
           /\ c2.op = "update_weight"
           /\ c1.hotkey = c2.hotkey /\ c1.epoch = c2.epoch
           /\ c1.existed = 0
           /\ c1.overlapped = 0 /\ c2.overlapped = 0

\* C21: with no prior entry for (h, e), add(h, d1, e) followed by
\* add(h, d2, e) leaves the single weight d1 + d2, and set(h, w, e) followed
\* by add(h, d, e) leaves w + d, which is what add returns; a completing call
\* changes no entry of another hotkey or another epoch.
C21_Accumulation ==
    [][Len(ws_log') = Len(ws_log) + 1 =>
         LET c2 == ws_log'[Len(ws_log')]
         IN  /\ \A h \in StoreHotkeys, e \in StoreEpochs :
                   (c2.op = "get_raw_weights" \/ h # c2.hotkey \/ e # c2.epoch)
                       => StoreEntries(ws_rows', h, e) = StoreEntries(ws_rows, h, e)
             /\ FollowsFirstWrite(ws_log') =>
                   LET c1 == ws_log[Len(ws_log)]
                   IN  /\ c2.result = c1.arg + c2.arg
                       /\ StoreEntries(ws_rows', c2.hotkey, c2.epoch)
                              = <<c1.arg + c2.arg>>
                       /\ get_raw_weights(ws_rows', c2.epoch)[c2.hotkey]
                              = c1.arg + c2.arg]_vars

\* Two adds to a fresh (hotkey, epoch) have completed one after the other
\* while the table also holds another entry.
C21_Witness ==
    /\ FollowsFirstWrite(ws_log)
    /\ ws_log[1].op = "update_weight"
    /\ Len(ws_rows) = 2
    /\ \E h \in StoreHotkeys, e \in StoreEpochs :
          (h # ws_log[2].hotkey \/ e # ws_log[2].epoch)
              /\ StoreEntries(ws_rows, h, e) # <<>>


\* Two add calls for one (hotkey, epoch) were in progress together and both
\* have completed; no other call was made.
TwoConcurrentAdds ==
    /\ ws_calls = 2
    /\ Len(ws_log) = 2
    /\ ws_log[1].op = "update_weight" /\ ws_log[2].op = "update_weight"
    /\ ws_log[1].hotkey = ws_log[2].hotkey /\ ws_log[1].epoch = ws_log[2].epoch
    /\ ws_log[1].overlapped = 1 /\ ws_log[2].overlapped = 1

\* C39: in whatever order the reads and the writes of two concurrent
\* add(h, d1, e) and add(h, d2, e) calls interleave, the store ends with
\* exactly one entry for (h, e), holding the previous weight plus d1 + d2.
\* The previous weight is what the first call to commit found: its result
\* less its delta, 0 when there was no entry.
C39_AtomicAdd ==
    TwoConcurrentAdds =>
        StoreEntries(ws_rows, ws_log[2].hotkey, ws_log[2].epoch)
            = <<(ws_log[1].result - ws_log[1].arg) + ws_log[1].arg + ws_log[2].arg>>

(***************************************************************************)
(* Claims about PUT /subnet/weights, under SpecEndpoint.                   *)
(***************************************************************************)
\* The request carries "<scheme> <token>" with the scheme Bearer in any case
\* and the configured token.
CarriesConfiguredToken(header) ==
    /\ header.present = 1
    /\ Len(header.parts) = 2
    /\ lower(header.parts[1]) = "bearer"
    /\ header.parts[2] = auth_token

BearerWithOtherToken(header) ==
    /\ header.present = 1
    /\ Len(header.parts) = 2
    /\ lower(header.parts[1]) = "bearer"
    /\ header.parts[2] # auth_token

Refused(put, status_code, detail) ==
    /\ put.response = Response(status_code, detail)
    /\ put.created = 0
    /\ put.scheduled = 0

\* C22: a PUT /subnet/weights schedules a job only when a token is
\* configured and the request carries it as bearer token; with an empty
\* configured token the answer is 500 "Token auth not configured", with a
\* configured token and no Authorization header 401 "Auth token required",
\* with another bearer token 401 "Invalid auth token", and none of these
\* requests creates a chain client or schedules a job.
C22_OnlyWithConfiguredToken ==
    au_puts > 0 =>
        /\ au_last.scheduled = 1 =>
              auth_token # "" /\ CarriesConfiguredToken(au_last.header)
        /\ au_last.created = 1 =>
              auth_token # "" /\ CarriesConfiguredToken(au_last.header)
        /\ auth_token = "" => Refused(au_last, 500, "Token auth not configured")
        /\ auth_token # "" /\ au_last.header.present = 0 =>
              Refused(au_last, 401, "Auth token required")
        /\ auth_token # "" /\ BearerWithOtherToken(au_last.header) =>
              Refused(au_last, 401, "Invalid auth token")

\* A request with a bearer token other than the configured one was refused.
C22_Witness ==
    /\ au_puts > 0
    /\ auth_token # ""
    /\ BearerWithOtherToken(au_last.header)
    /\ au_last.response.status_code = 401


(***************************************************************************)
(* Claims about the periodic tasks, under SpecTasks and SpecTasksFair.     *)
(***************************************************************************)
TaskEnded(task_pc) == task_pc \in {"done", "raised"}

IterationRaises ==
    \/ MgHeadRaises \/ MgCacheRaises
    \/ HpFetchRaises
    \/ CsGetWeightsRaises \/ CsCommitRaises

\* C24: an exception raised inside an iteration (block fetch, metagraph
\* caching, hyperparameter fetch, get_weights, weight commit) does not leave
\* the loop: the task goes on to its interval wait (the scheduler, whose wait
\* comes first, to its loop test), and a wait that the interval ends while
\* stop_event is not set is followed by the next iteration.  No step inside
\* the loop ends a task with an exception.
C24_IterationErrorsStayInLoop ==
    [][/\ MgHeadRaises \/ MgCacheRaises => mg_pc' = "wait"
       /\ HpFetchRaises => hp_pc' = "wait"
       /\ CsGetWeightsRaises \/ CsCommitRaises =>
             cs_pc' = IF stop_event THEN "done" ELSE "wait"
       /\ ~stop_event /\ mg_pc = "wait" /\ mg_pc' # "wait" => mg_pc' = "head_get"
       /\ ~stop_event /\ hp_pc = "wait" /\ hp_pc' # "wait" => hp_pc' = "fetch"
       /\ ~stop_event /\ cs_pc = "wait" /\ cs_pc' # "wait" =>
             \/ cs_pc' = "get_weights"
             \/ too_few_tempos(app_latest_block, last_successful_commit_block)
             \/ app_latest_block = NoBlock
             \/ app_latest_block \notin commit_window(app_latest_block)
       /\ mg_pc' # "raised" /\ hp_pc' # "raised"
       /\ cs_pc' = "raised" => cs_pc \in {"startup", "raised"}]_vars

\* Caching the metagraph of a new block has raised and the refresh task is
\* in its interval wait, latest_block still the old one.
C24_Witness ==
    /\ mg_pc = "wait"
    /\ new_block # NoBlock
    /\ new_block # app_latest_block
    /\ ~stop_event


\* (current - last) >= commit_cycle_length * tempo
EnoughTempos(current, last) ==
    current - last >= pt_settings.commit_cycle_length * pt_settings.tempo

\* current lies in [T + start offset, T + tempo - end buffer) for the start T
\* of the tempo that holds it.
InCommitWindow(current) ==
    LET T == epoch_start_of(current)
    IN  /\ T + pt_settings.commit_window_start_offset <= current
        /\ current < T + pt_settings.tempo - pt_settings.commit_window_end_buffer

\* C25: the scheduler reaches commit_weights only for a current block with
\* (current - last_successful_commit_block) >= commit_cycle_length * tempo
\* that lies in the commit window; a commit that returns sets
\* last_successful_commit_block and last_commit_block to that block and
\* reveal_round to the round returned; a skipped or failed commit, and every
\* other step after the startup read, leaves the three unchanged.
C25_CommitOnlyWhenDue ==
    [][/\ cs_pc' = "commit" =>
             /\ EnoughTempos(current_block', last_successful_commit_block')
             /\ InCommitWindow(current_block')
       /\ cs_pc = "commit" /\ cs_pc' # "commit" =>
             \/ UNCHANGED commitState
             \/ /\ last_successful_commit_block' = current_block
                /\ last_commit_block' = current_block
                /\ reveal_round' \in RevealRounds
       /\ CsCommitRaises => UNCHANGED commitState
       /\ cs_pc \notin {"startup", "commit"} => UNCHANGED commitState]_vars

\* A commit has returned: the three hold its block and round.
C25_Witness ==
    /\ last_commit_block # NoBlock
    /\ last_successful_commit_block = last_commit_block
    /\ reveal_round \in RevealRounds
    /\ cs_pc = "wait"


\* C27: the refresh task changes latest_block only in the step in which
\* cache_metagraph returns, and then the cache holds the metagraph of the
\* new latest_block and current_epoch_start is the start of its epoch; when
\* head.get or cache_metagraph fails both keep their values and the task
\* waits; the next head block that is not latest_block is cached again.
C27_LatestBlockAfterCaching ==
    [][/\ app_latest_block' # app_latest_block \/ current_epoch_start' # current_epoch_start =>
             /\ mg_pc = "cache"
             /\ app_latest_block' = new_block
             /\ app_latest_block' \in DOMAIN metagraph_cache'
             /\ current_epoch_start' = epoch_start_of(app_latest_block')
       /\ MgHeadRaises \/ MgHeadInvalid \/ MgCacheRaises =>
             /\ UNCHANGED <<app_latest_block, current_epoch_start>>
             /\ mg_pc' = "wait"
       /\ MgHeadReturns /\ chain_tip # app_latest_block =>
             mg_pc' = "cache" /\ new_block' = chain_tip]_vars

\* latest_block was set for one block; caching a later block has failed and
\* latest_block is still the earlier one, whose metagraph was cached.
C27_Witness ==
    /\ mg_pc = "wait"
    /\ app_latest_block # NoBlock
    /\ new_block # NoBlock
    /\ new_block # app_latest_block
    /\ current_epoch_start = epoch_start_of(app_latest_block)

\* C35: once stop_event is set the scheduler starts no iteration (it does not
\* enter the interval wait again), so the only get_weights call begun after
\* the signal is that of the iteration which was in its wait when the signal
\* came, and the only commit_weights call is one that follows a get_weights.
C35_NoIterationAfterStop ==
    [][stop_event =>
          /\ cs_pc # "wait" => cs_pc' # "wait"
          /\ cs_pc \notin {"wait", "get_weights"} => cs_pc' # "get_weights"
          /\ cs_pc \notin {"get_weights", "commit"} => cs_pc' # "commit"]_vars

\* The stop signal has come and the loop has ended, the scheduler having
\* committed at the latest block.
C35_Witness ==
    /\ stop_event
    /\ cs_pc = "done"
    /\ last_commit_block # NoBlock
    /\ last_commit_block = app_latest_block

\* C36: a periodic task has returned or raised only if stop_event is set:
\* no failing call, in an iteration or in the scheduler's startup read, ends
\* a task before the signal.
C36_TasksEndOnlyOnStop ==
    (TaskEnded(mg_pc) \/ TaskEnded(hp_pc) \/ TaskEnded(cs_pc)) => stop_event

\* A poll of the hyperparameters has ended in this step.
PollEnds == hp_pc = "fetch" /\ hp_pc' = "wait"

\* C37: the hyperparameter cache is one entry overwritten by every poll: after
\* a successful poll the cached hyperparameters equal what the poll returned,
\* and a failed poll leaves the cache as it was.
C37_PollOverwrites ==
    [][PollEnds =>
          IF new_hyperparams'.returned = 1
          THEN app_hyperparams' = new_hyperparams'.items
          ELSE app_hyperparams' = app_hyperparams]_vars

\* C37 amended: after a successful poll the cache holds, for every key the
\* poll returned, the value the poll returned, and for every other key the
\* value it held before; a failed poll leaves the cache as it was.
C37_PollMerges ==
    [][PollEnds =>
          IF new_hyperparams'.returned = 1
          THEN /\ DOMAIN app_hyperparams' =
                      DOMAIN app_hyperparams \cup DOMAIN new_hyperparams'.items
               /\ \A k \in DOMAIN new_hyperparams'.items :
                      app_hyperparams'[k] = new_hyperparams'.items[k]
               /\ \A k \in DOMAIN app_hyperparams \ DOMAIN new_hyperparams'.items :
                      app_hyperparams'[k] = app_hyperparams[k]
          ELSE app_hyperparams' = app_hyperparams]_vars

\* A poll has returned a dict without a key that is cached: the cache still
\* holds the key.
C37_Witness ==
    /\ hp_pc = "wait"
    /\ new_hyperparams.returned = 1
    /\ \E k \in DOMAIN app_hyperparams : k \notin DOMAIN new_hyperparams.items

\* C33: whenever app.state.latest_block is a block number, the metagraph
\* cache holds an entry for it, so that a reader doing
\* metagraph_cache.get(latest_block) finds a metagraph.
C33_LatestBlockIsCached ==
    app_latest_block # NoBlock => app_latest_block \in DOMAIN metagraph_cache

(***************************************************************************)
(* Claims about the metagraph cache, under SpecCache.                      *)
(***************************************************************************)
IsCall(event) == event.kind \in {"returned", "raised"}

\* log[i] and log[j] are two get_metagraph calls for one block made one after
\* the other, no other call in progress during either, the first of which
\* returned, with no removal of the block and no further call for it between.
Successive(log, i, j) ==
    /\ i < j
    /\ log[i].kind = "returned"
    /\ IsCall(log[j])
    /\ log[i].block = log[j].block
    /\ log[i].overlapped = 0 /\ log[j].overlapped = 0
    /\ \A k \in (i + 1)..(j - 1) : log[k].block # log[i].block

LastEvent(log) == log[Len(log)]

\* C32: cache fills are not single-flight.  Every call whose load from the
\* chain completes stores a new object under the block it was asked for,
\* whether or not another call has filled the block meanwhile, so the entry
\* left is the one written last; and every call that returns returns an
\* entry, one that was stored for the block it asked for.
C32_LastWriteWins ==
    /\ [](\A i, j \in 1..Len(gm_log) :
             (gm_log[i].kind = "returned" /\ gm_log[j].kind = "returned") =>
                 /\ gm_log[i].object # NoObject
                 /\ gm_log[i].object = gm_log[j].object =>
                        gm_log[i].block = gm_log[j].block)
    /\ [][mc_stores' # mc_stores =>
             /\ mc_stores' = mc_stores + 1
             /\ Len(gm_log') = Len(gm_log) + 1
             /\ LastEvent(gm_log').kind = "returned"
             /\ LastEvent(gm_log').object = mc_stores'
             /\ LastEvent(gm_log').block \in DOMAIN metagraph_cache'
             /\ metagraph_cache'[LastEvent(gm_log').block] = mc_stores']_vars

\* Two calls for one block that ran at the same time both loaded and stored;
\* the cache holds the object of the second store.
C32_Witness ==
    /\ Len(gm_log) = 2
    /\ gm_log[1].kind = "returned" /\ gm_log[2].kind = "returned"
    /\ gm_log[1].block = gm_log[2].block
    /\ gm_log[1].overlapped = 1 /\ gm_log[2].overlapped = 1
    /\ gm_log[1].object = 1 /\ gm_log[2].object = 2
    /\ gm_log[2].block \in DOMAIN metagraph_cache
    /\ metagraph_cache[gm_log[2].block] = 2


(***************************************************************************)
(* Claims about the two-connection client, under SpecClient.               *)
(***************************************************************************)
\* The connection of a sub-client is established.
SubClientOpen(state) == state = "open"

\* C38: once BittensorClient.open() or close() has returned or raised, the
\* main and the archive sub-client are in the same state; an open() whose
\* connection attempt raised leaves neither sub-client open, and a close()
\* leaves neither sub-client open, also when closing one of them raised.
C38_SubClientsAgree ==
    (bc_pc = "idle" /\ bc_log # <<>>) =>
        /\ SubClientOpen(bc_main) <=> SubClientOpen(bc_archive)
        /\ (LastEvent(bc_log).operation = "open"
                /\ LastEvent(bc_log).outcome = "raised") =>
               ~SubClientOpen(bc_main) /\ ~SubClientOpen(bc_archive)
        /\ LastEvent(bc_log).operation = "close" =>
               ~SubClientOpen(bc_main) /\ ~SubClientOpen(bc_archive)

====
